---------------------------- MODULE Spec2Model ----------------------------
(***************************************************************************)
(* Print-job pipeline of the Hostego desktop print client.                 *)
(*                                                                         *)
(* Three revisions of the job orchestrator are modelled, selected by the   *)
(* variable impl:                                                          *)
(*   "part_004"  PRINT_JOB handler + printJob with LibreOffice conversion  *)
(*               and progress events (src/unnamed/part_004)                *)
(*   "index"     printJob with quantity x file loops (src/index.js)        *)
(*   "part_002"  printImages with the all-image fast path and the          *)
(*               rasterising mixed path (src/unnamed/part_002)             *)
(*                                                                         *)
(* Strings whose characters matter (URLs, file-type hints) are sequences   *)
(* of one-character strings; error messages are sequences of words.        *)
(* File indexes are 0-based as in the source; images_urls[i] of the source *)
(* is urls[i + 1] here.                                                    *)
(***************************************************************************)
EXTENDS Integers, Sequences, FiniteSets, TLC

VARIABLES
    impl,         \* which revision of the orchestrator runs the job
    job,          \* the request object received by the PRINT_JOB handler
    printers,     \* the live printer list the OS reports
    libreOffice,  \* what isLibreOfficeInstalled() returns to printJob
    pc,           \* position of the job in the handler / orchestrator code
    i,            \* loop variable i of the file loop
    q,            \* loop variable q of the quantity loop
    targetPrinter,\* device name resolved for the job ("" when not resolved)
    isConverted,  \* isConvertedDocument of the current iteration
    tempDir,      \* "none" | "exists" | "removed": the per-job temp directory
    fsFiles,      \* files currently present in the temp directory
    madeFiles,    \* every temp file the job ever created
    window,       \* "none" | "open" | "closed": the job's print window
    errorBox,     \* TRUE once dialog.showErrorBox was called
    queries,      \* number of printer-list queries made by the job
    work,         \* downloads, conversions, rasterizations, page loads started
    submissions,  \* calls of webContents.print, in order
    progress,     \* calls of sendProgress, in order
    err,          \* the exception in flight / caught
    url,          \* local variable url of the current loop iteration
    loaded,       \* the page the print window has loaded
    tempFiles,    \* printImages: the tempFiles list (tracked page images)
    pdfImages,    \* printImages: page images of the PDF being printed
    pageNum,      \* printImages: position in pdfImages (1-based)
    response,     \* status of the response the last download ended on
    kinds,        \* classification: results of the calls made so far
    clock,        \* the millisecond clock (Date.now(); in the PDF render wait,
                  \* the time since the page was loaded)
    tmpDirs,      \* overlapping jobs: temp directories that exist
    tmpDisk,      \* overlapping jobs: files in the temp directories
    running,      \* overlapping jobs: state of each of the two calls
    platform,     \* process.platform
    installed,    \* the converter executables that exist on disk, by path
    replies,      \* GET_CAPABILITIES / GET_SUPPORTED_FILE_TYPES replies so far
    checks,       \* PDF render wait: the counter of the polling promise
    pdfFlag,      \* PDF render page: "none" | "rendered" | "error"
    lastDevice,   \* device name the printJob call before this one resolved
    host,         \* whether the main window exists, and what the enumeration
                  \* of printers does: "ok" | "throws" | "none" (no such API)
    renderer,     \* hostego.print in the page: job id counter, stored callbacks,
                  \* PRINT_PROGRESS listeners, messages received from main
    result        \* what the PRINT_JOB handler returned

vars == <<impl, job, printers, libreOffice, pc, i, q, targetPrinter,
          isConverted, tempDir, fsFiles, madeFiles, window, errorBox, queries,
          work, submissions, progress, err, url, loaded, tempFiles, pdfImages,
          pageNum, response, kinds, clock, tmpDirs, tmpDisk, running, platform,
          installed, replies, checks, pdfFlag, lastDevice, renderer, host,
          result>>

-----------------------------------------------------------------------------
(* Bounds of the model *)

MaxFiles == 2

\* Largest number of pages of a PDF.
MaxPages == 2

\* Largest number of redirects a server answers a download with before its
\* final response.
MaxRedirects == 1

\* Largest number of times a classifier is called on the same file.
MaxCalls == 2

\* Largest value of the millisecond clock while two jobs overlap.
MaxClock == 2

-----------------------------------------------------------------------------
(* Characters and strings *)

UpperChars == <<"A","B","C","D","E","F","G","H","I","J","K","L","M",
                "N","O","P","Q","R","S","T","U","V","W","X","Y","Z">>

LowerChars == <<"a","b","c","d","e","f","g","h","i","j","k","l","m",
                "n","o","p","q","r","s","t","u","v","w","x","y","z">>

\* The lower-case letter of each upper-case letter, as a table.
UpperToLower ==
    [c \in {UpperChars[k] : k \in DOMAIN UpperChars} |->
        LowerChars[CHOOSE k \in DOMAIN UpperChars : UpperChars[k] = c]]

LowerChar(c) == IF c \in DOMAIN UpperToLower THEN UpperToLower[c] ELSE c

\* String.prototype.toLowerCase
ToLowerCase(s) == [k \in DOMAIN s |-> LowerChar(s[k])]

\* String.prototype.includes
Includes(s, t) ==
    \E k \in 0..(Len(s) - Len(t)) : SubSeq(s, k + 1, k + Len(t)) = t

\* Mutant: the extension may be followed by anything.
TestExt_NoTerminator(s, exts) ==
    \E k \in 1..Len(s) : \E e \in exts :
        /\ s[k] = "."
        /\ k + Len(e) <= Len(s)
        /\ SubSeq(ToLowerCase(s), k + 1, k + Len(e)) = e

\* /\.(e1|e2|...)($|[?#])/i.test(s): a dot, one of the extensions, then the
\* end of the string or a '?' or a '#'.
TestExt(s, exts) ==
    \E k \in 1..Len(s) : \E e \in exts :
        /\ s[k] = "."
        /\ k + Len(e) <= Len(s)
        /\ SubSeq(ToLowerCase(s), k + 1, k + Len(e)) = e
        /\ \/ k + Len(e) = Len(s)
           \/ k + Len(e) < Len(s) /\ s[k + Len(e) + 1] \in {"?", "#"}

\* The first extension the regular expression captures (leftmost match,
\* longest alternative that lets the whole pattern match).
MatchExt(s, exts) ==
    LET ok(k, e) == /\ s[k] = "."
                    /\ k + Len(e) <= Len(s)
                    /\ SubSeq(ToLowerCase(s), k + 1, k + Len(e)) = e
                    /\ \/ k + Len(e) = Len(s)
                       \/ k + Len(e) < Len(s) /\ s[k + Len(e) + 1] \in {"?", "#"}
        ks == {k \in 1..Len(s) : \E e \in exts : ok(k, e)}
    IN  IF ks = {} THEN <<>>
        ELSE LET k0 == CHOOSE k \in ks : \A k2 \in ks : k <= k2
                 e0 == CHOOSE e \in exts : ok(k0, e)
             IN  SubSeq(s, k0 + 1, k0 + Len(e0))

DocExts == { <<"d","o","c">>, <<"d","o","c","x">>, <<"x","l","s">>,
             <<"x","l","s","x">>, <<"p","p","t">>, <<"p","p","t","x">>,
             <<"o","d","t">>, <<"o","d","s">>, <<"o","d","p">> }

PdfExt == <<"p","d","f">>


-----------------------------------------------------------------------------
(* File classification of src/unnamed/part_004 *)

\* job.file_types && Array.isArray(job.file_types)
\*     ? String(job.file_types[index] || "").toLowerCase() : ""
\* A missing list, a short list and an empty entry all give "".
FileTypeHint(j, index) ==
    IF index + 1 \in DOMAIN j.file_types
    THEN ToLowerCase(j.file_types[index + 1])
    ELSE <<>>

isDocumentUrl(u) == TestExt(u, DocExts)

isDocument(j, u, index) ==
    LET ft == FileTypeHint(j, index)
    IN  \/ /\ ft # <<>>
           /\ \E type \in DocExts : ft = type \/ Includes(ft, type)
        \/ isDocumentUrl(u)

isPdfUrl(u) == TestExt(u, {PdfExt})

\* Mutant: a hint without "pdf" falls through to the URL test.
isPdf_FallThrough(j, u, index) ==
    LET ft == FileTypeHint(j, index)
    IN  IF ft # <<>> /\ Includes(ft, PdfExt) THEN TRUE
        ELSE isPdfUrl(u)

isPdf(j, u, index) ==
    LET ft == FileTypeHint(j, index)
    IN  IF ft # <<>> /\ Includes(ft, PdfExt) THEN TRUE
        ELSE IF ft # <<>> /\ ~Includes(ft, PdfExt) THEN FALSE
        ELSE isPdfUrl(u)

-----------------------------------------------------------------------------
(* Requests and environments the jobs are run with *)

UrlPng   == <<"h","/","a",".","p","n","g">>
UrlPdf   == <<"h","/","b",".","p","d","f">>
UrlDocx  == <<"h","/","c",".","D","o","c","x">>
UrlPlain == <<"h","/","f">>

HintNone == <<>>
HintDocx == <<"d","o","c","x">>
HintPdfMime == <<"a","p","p","l","i","c","a","t","i","o","n","/","p","d","f">>

\* Values of color_mode and of the entries of color_modes; <<>> is an absent,
\* null or empty value.
ModeNone       == <<>>
ModeColor      == <<"c","o","l","o","r">>
ModeColorUpper == <<"C","o","l","o","r">>
ModeBlack      == <<"b","l","a","c","k">>

\* LIBRE_OFFICE_PATHS: the converter executable of each known platform
LIBRE_OFFICE_PATHS ==
    [win32  |-> "C:\\Program Files\\LibreOffice\\program\\soffice.exe",
     darwin |-> "/Applications/LibreOffice.app/Contents/MacOS/soffice",
     linux  |-> "/usr/bin/soffice"]

\* One entry of images_urls with the entry of file_types aligned to it.
Files == { [url |-> UrlPng,   hint |-> HintNone],
           [url |-> UrlPdf,   hint |-> HintNone],
           [url |-> UrlDocx,  hint |-> HintNone],
           [url |-> UrlPlain, hint |-> HintDocx],
           [url |-> UrlDocx,  hint |-> HintPdfMime] }

FileLists == UNION { [1..n -> Files] : n \in 0..MaxFiles }

\* images_urls as the handler may receive it: missing, not an array, or an
\* array (possibly empty).
ImagesUrlsValues ==
    { [kind |-> "missing", val |-> <<>>],
      [kind |-> "string",  val |-> <<UrlPng>>] }
    \cup { [kind |-> "array", val |-> [k \in DOMAIN fl |-> fl[k].url]] : fl \in FileLists }

Quantities == {0, 1, 3}

\* (deviceName, printerName) pairs; "" is an absent field.
DeviceRequests == { [deviceName |-> "",      printerName |-> ""],
                    [deviceName |-> "Canon", printerName |-> ""],
                    [deviceName |-> "",      printerName |-> "HP"],
                    [deviceName |-> "Ghost", printerName |-> "HP"] }

Jobs ==
    { [images_urls |-> [kind |-> "array", val |-> [k \in DOMAIN fl |-> fl[k].url]],
       file_types  |-> [k \in DOMAIN fl |-> fl[k].hint],
       quantity    |-> qt,
       color_mode  |-> ModeColor,
       color_modes |-> <<>>,
       deviceName  |-> d.deviceName,
       printerName |-> d.printerName] :
      fl \in FileLists, qt \in Quantities, d \in DeviceRequests }
    \cup
    { [images_urls |-> u, file_types |-> <<>>, quantity |-> 1,
       color_mode |-> ModeColor, color_modes |-> <<>>,
       deviceName |-> d.deviceName, printerName |-> d.printerName] :
      u \in { v \in ImagesUrlsValues : v.kind # "array" }, d \in DeviceRequests }

PrinterLists ==
    { <<>>,
      << [name |-> "HP", isDefault |-> FALSE] >>,
      << [name |-> "HP", isDefault |-> FALSE], [name |-> "Canon", isDefault |-> TRUE] >>,
      << [name |-> "HP", isDefault |-> FALSE], [name |-> "Canon", isDefault |-> FALSE] >> }

-----------------------------------------------------------------------------
(* Error messages (sequences of words) *)

MsgInput == <<"images_urls","is","required","and","must","be","a","non-empty","array.">>

MsgLibreOffice == <<"LibreOffice","is","not","installed.","Please","install",
                    "it","to","print","documents.">>

MsgNoPrinters == <<"No","printers","found.">>

MsgPrinterNotFound(name) == <<"Printer", name, "not", "found.">>

MsgDownloadStatus(code) == <<"Download","failed","with","status:",code>>

MsgNetwork == <<"ECONNRESET">>

MsgConversionFailed == <<"Conversion","failed:","exit","1">>

MsgOutputNotFound == <<"PDF","conversion","failed","-","output","file","not","found">>

\* Mutant: the converter's message is passed on as it is.
MsgFailedToConvert_Bare(m) == m

MsgFailedToConvert(m) == <<"Failed","to","convert","document:">> \o m

MsgLoadFailed == <<"ERR_FAILED">>

MsgLoadTimedOut == <<"Load","timed","out">>

MsgPdfError == <<"Invalid","PDF","structure">>

MsgPdfRenderTimeout == <<"PDF","render","timeout">>

MsgPrintFailed == <<"Print","failed">>

MsgJobCompleted == <<"Print","job","completed","successfully">>

\* failureReason values the OS print callback may report ("" when none).
PrintReasons == { <<>>, <<"Printer","offline">> }

NoError == [thrown |-> FALSE, msg |-> <<>>]

Error(m) == [thrown |-> TRUE, msg |-> m]

NoResult == [settled |-> "none", success |-> FALSE, text |-> <<>>]

NoPage == [kind |-> "none", url |-> <<>>]

-----------------------------------------------------------------------------
(* Helpers shared by the orchestrators *)

urls == job.images_urls.val

\* job.deviceName || job.printerName
RequestedDevice(j) == IF j.deviceName # "" THEN j.deviceName ELSE j.printerName

\* Mutant: the length test is forgotten.
InvalidInput_NoLengthTest(j) == j.images_urls.kind # "array"

\* !images_urls || !Array.isArray(images_urls) || images_urls.length === 0
InvalidInput(j) == j.images_urls.kind # "array" \/ Len(j.images_urls.val) = 0

\* A host whose main window exists and whose printers can be enumerated.
NormalHost == [mainWindow |-> TRUE, enumeration |-> "ok"]

\* Mutant: an exception of the enumeration is passed on to the caller.
getPrintersList_Rethrow(webContents, enumeration, ps) ==
    IF ~webContents THEN [error |-> NoError, value |-> <<>>]
    ELSE IF enumeration = "throws"
         THEN [error |-> Error(<<"getPrinters", "failed">>), value |-> <<>>]
    ELSE IF enumeration = "ok" THEN [error |-> NoError, value |-> ps]
    ELSE [error |-> NoError, value |-> <<>>]

\* getPrintersList(webContents): [] without a webContents, the list that
\* getPrintersAsync or getPrinters returns, [] when the call throws or when
\* neither function exists. error is what the function throws.
getPrintersList(webContents, enumeration, ps) ==
    IF ~webContents THEN [error |-> NoError, value |-> <<>>]
    ELSE IF enumeration = "throws" THEN [error |-> NoError, value |-> <<>>]
    ELSE IF enumeration = "ok" THEN [error |-> NoError, value |-> ps]
    ELSE [error |-> NoError, value |-> <<>>]

\* Mutant: the first entry is taken without looking at isDefault.
DefaultPrinter_FirstEntry(ps) == ps[1]

\* printers.find((p) => p.isDefault) || printers[0]
DefaultPrinter(ps) ==
    IF \E k \in DOMAIN ps : ps[k].isDefault
    THEN ps[CHOOSE k \in DOMAIN ps :
                /\ ps[k].isDefault
                /\ \A k2 \in DOMAIN ps : ps[k2].isDefault => k <= k2]
    ELSE ps[1]

\* Mutant: an unknown device name falls back to the default printer.
getTargetPrinter_FallBack(ps, deviceName) ==
    IF Len(ps) = 0 THEN [error |-> Error(MsgNoPrinters), name |-> ""]
    ELSE IF deviceName = "" \/ ~ \E k \in DOMAIN ps : ps[k].name = deviceName
         THEN [error |-> NoError, name |-> DefaultPrinter(ps).name]
    ELSE [error |-> NoError, name |-> deviceName]

\* getTargetPrinter: the error it throws, or the device name it returns.
getTargetPrinter(ps, deviceName) ==
    IF Len(ps) = 0 THEN [error |-> Error(MsgNoPrinters), name |-> ""]
    ELSE IF deviceName = ""
         THEN [error |-> NoError, name |-> DefaultPrinter(ps).name]
    ELSE IF ~ \E k \in DOMAIN ps : ps[k].name = deviceName
         THEN [error |-> Error(MsgPrinterNotFound(deviceName)), name |-> ""]
    ELSE [error |-> NoError, name |-> deviceName]

\* data:application/pdf;base64,<content>; the content of a downloaded or
\* converted file is represented by the URL it was obtained from.
DataUrlPrefix == "data:application/pdf;base64,"

DataUrl(content) == <<DataUrlPrefix>> \o content

\* The request URL whose content a loaded page shows.
SourceOf(pageUrl) ==
    IF pageUrl # <<>> /\ pageUrl[1] = DataUrlPrefix THEN Tail(pageUrl) ELSE pageUrl

\* const isColor = String(color_mode || "color").toLowerCase() === "color"
isColor(j) ==
    ToLowerCase(IF j.color_mode # ModeNone THEN j.color_mode ELSE ModeColor) = ModeColor

\* A page size given by name, or as a width and a height in microns.
NamedSize(name) == [name |-> name, width |-> 0, height |-> 0]

CustomSize(w, h) == [name |-> "custom", width |-> w, height |-> h]

\* One call of sendProgress; numerals of the message text are left out.
Event(index, status, message, u) ==
    [fileIndex |-> index, totalFiles |-> Len(urls), status |-> status,
     message |-> message, url |-> u]

\* printJobData.images_urls?.length || 0: the length of whatever was sent as
\* images_urls, for a string the number of its characters.
requestLength(j) ==
    CASE j.images_urls.kind = "array"  -> Len(j.images_urls.val)
      [] j.images_urls.kind = "string" -> Len(j.images_urls.val[1])
      [] OTHER                         -> 0

\* The handler's own call of sendProgress, after printJob has settled.
JobEvent(status, message) ==
    [fileIndex |-> -1, totalFiles |-> requestLength(job), status |-> status,
     message |-> message, url |-> <<>>]

\* The options object handed to webContents.print together with the page the
\* window shows at that moment.
PrintCall(page, copies, device, color) ==
    [page |-> page, silent |-> TRUE, printBackground |-> TRUE, color |-> color,
     copies |-> copies, deviceName |-> device, margins |-> "none",
     pageSize |-> NamedSize("A4")]

DownloadPath(index, u) ==
    [index |-> index,
     ext |-> IF MatchExt(u, DocExts) # <<>> THEN MatchExt(u, DocExts)
             ELSE <<"d","o","c","x">>]

\* path.basename(inputPath).replace(/\.(docx?|...)$/i, ".pdf") in outputDir
PdfPath(inputPath) ==
    IF ToLowerCase(inputPath.ext) \in DocExts
    THEN [index |-> inputPath.index, ext |-> PdfExt]
    ELSE inputPath

-----------------------------------------------------------------------------
(* Downloads *)

\* What a server may answer to one request: an HTTP status, "error" for a
\* connection error, "none" when it never answers.
HttpResponses == {"200", "204", "302", "303", "404", "error", "none"}

\* The answers to a download and to the requests of the redirects that
\* follow it.  A chain whose last answer is a redirect that the client
\* follows stands for a redirect loop.
ResponseChains == UNION { [1..n -> HttpResponses] : n \in 1..(MaxRedirects + 1) }

Pending(status) == [settled |-> "pending", status |-> status]

Rejected(status) == [settled |-> "rejected", status |-> status]

Resolved(status) == [settled |-> "resolved", status |-> status]

\* downloadFile of part_004: 301/302/307/308 are followed by a recursive
\* call, without a limit; any other status than 200 rejects; nothing bounds
\* the wait for a response.
RECURSIVE downloadFile(_)
downloadFile(chain) ==
    IF chain = <<>> THEN Pending("302")
    ELSE LET r == Head(chain)
         IN  IF r \in {"301", "302", "307", "308"} THEN downloadFile(Tail(chain))
             ELSE IF r = "none" THEN Pending(r)
             ELSE IF r = "error" THEN Rejected(r)
             ELSE IF r # "200" THEN Rejected(r)
             ELSE Resolved(r)

-----------------------------------------------------------------------------
(* PRINT_JOB handler and printJob of src/unnamed/part_004 *)

\* printJob of src/unnamed/part_004 is run with the PDF render wait as one
\* step ("part_004"), or with every check of its polling promise as a step
\* ("part_004.poll"), or as one of several calls made one after the other
\* while the printer list of the host changes ("part_004.printers"), or on a
\* host whose printers cannot always be enumerated ("part_004.enum").
Revision004 == {"part_004", "part_004.poll", "part_004.printers", "part_004.enum"}

Init004 ==
    /\ impl = "part_004"
    /\ job \in Jobs
    /\ printers \in PrinterLists
    /\ libreOffice \in BOOLEAN
    /\ pc = "idle"
    /\ i = 0
    /\ q = 0
    /\ targetPrinter = ""
    /\ isConverted = FALSE
    /\ tempDir = "none"
    /\ fsFiles = {}
    /\ madeFiles = {}
    /\ window = "none"
    /\ errorBox = FALSE
    /\ queries = 0
    /\ work = <<>>
    /\ submissions = <<>>
    /\ progress = <<>>
    /\ err = NoError
    /\ url = <<>>
    /\ loaded = NoPage
    /\ tempFiles = <<>>
    /\ pdfImages = <<>>
    /\ pageNum = 0
    /\ response = ""
    /\ platform = "linux"
    /\ installed = IF libreOffice THEN {LIBRE_OFFICE_PATHS.linux} ELSE {}
    /\ replies = <<>>
    /\ checks = 0
    /\ pdfFlag = "none"
    /\ lastDevice = ""
    /\ host = NormalHost
    /\ renderer = <<>>
    /\ kinds = <<>>
    /\ clock = 0
    /\ tmpDirs = {}
    /\ tmpDisk = {}
    /\ running = <<>>
    /\ result = NoResult

\* The handler calls printJob, which validates images_urls first.
ValidateInput ==
    /\ impl \in Revision004 /\ pc = "idle"
    /\ IF InvalidInput(job)
       THEN /\ err' = Error(MsgInput)
            /\ pc' = "rejected"
       ELSE /\ err' = err
            /\ pc' = "checkLibre"
    /\ UNCHANGED <<impl, host, job, lastDevice, renderer, platform, installed, replies, checks, pdfFlag, kinds, clock, tmpDirs, tmpDisk, running, response, tempFiles, pdfImages, pageNum, printers, libreOffice, i, q, targetPrinter,
                   isConverted, tempDir, fsFiles, madeFiles, window, errorBox,
                   queries, work, submissions, progress, url, loaded, result>>

\* Mutant: only the first file is looked at.
hasDocuments_FirstOnly ==
    Len(urls) > 0 /\ isDocument(job, urls[1], 0)

\* images_urls.some((url, i) => isDocument(job, url, i))
hasDocuments ==
    \E k \in DOMAIN urls : isDocument(job, urls[k], k - 1)

CheckLibreOffice ==
    /\ impl \in Revision004 /\ pc = "checkLibre"
    /\ IF hasDocuments /\ ~libreOffice
       THEN /\ errorBox' = TRUE
            /\ err' = Error(MsgLibreOffice)
            /\ pc' = "rejected"
       ELSE /\ errorBox' = errorBox
            /\ err' = err
            /\ pc' = "setup"
    /\ UNCHANGED <<impl, host, job, lastDevice, renderer, platform, installed, replies, checks, pdfFlag, kinds, clock, tmpDirs, tmpDisk, running, response, tempFiles, pdfImages, pageNum, printers, libreOffice, i, q, targetPrinter,
                   isConverted, tempDir, fsFiles, madeFiles, window, queries,
                   work, submissions, progress, url, loaded, result>>

\* mkdirSync(tempDir) and new BrowserWindow(...)
CreateTempDirAndWindow ==
    /\ impl \in Revision004 /\ pc = "setup"
    /\ tempDir' = "exists"
    /\ window' = "open"
    /\ pc' = "resolvePrinter"
    /\ UNCHANGED <<impl, host, job, lastDevice, renderer, platform, installed, replies, checks, pdfFlag, kinds, clock, tmpDirs, tmpDisk, running, response, tempFiles, pdfImages, pageNum, printers, libreOffice, i, q, targetPrinter,
                   isConverted, fsFiles, madeFiles, errorBox, queries, work,
                   submissions, progress, err, url, loaded, result>>

\* Mutant: the device resolved by the call before is used again.
ResolvePrinter_Cached ==
    /\ impl \in Revision004 /\ pc = "resolvePrinter"
    /\ LET l == getPrintersList(TRUE, host.enumeration, printers)
           r == IF l.error.thrown THEN [error |-> l.error, name |-> ""]
                ELSE getTargetPrinter(l.value, RequestedDevice(job))
       IN  IF lastDevice # ""
           THEN /\ queries' = queries
                /\ err' = err
                /\ targetPrinter' = lastDevice
                /\ pc' = IF 0 < Len(urls) THEN "file" ELSE "finish"
           ELSE IF r.error.thrown
           THEN /\ queries' = queries + 1
                /\ err' = r.error
                /\ targetPrinter' = targetPrinter
                /\ pc' = "catch"
           ELSE /\ queries' = queries + 1
                /\ err' = err
                /\ targetPrinter' = r.name
                /\ pc' = IF 0 < Len(urls) THEN "file" ELSE "finish"
    /\ i' = 0
    /\ UNCHANGED <<impl, host, renderer, job, printers, libreOffice, q, isConverted, tempDir,
                   fsFiles, madeFiles, window, errorBox, work, submissions,
                   progress, url, loaded, tempFiles, pdfImages, pageNum,
                   response, kinds, clock, tmpDirs, tmpDisk, running,
                   platform, installed, replies, checks, pdfFlag, lastDevice,
                   result>>

\* try { const targetPrinter = await getTargetPrinter(); ...
ResolvePrinter ==
    /\ impl \in Revision004 /\ pc = "resolvePrinter"
    /\ queries' = queries + 1
    /\ LET l == getPrintersList(TRUE, host.enumeration, printers)
           r == IF l.error.thrown THEN [error |-> l.error, name |-> ""]
                ELSE getTargetPrinter(l.value, RequestedDevice(job))
       IN  IF r.error.thrown
           THEN /\ err' = r.error
                /\ targetPrinter' = targetPrinter
                /\ pc' = "catch"
           ELSE /\ err' = err
                /\ targetPrinter' = r.name
                /\ pc' = IF 0 < Len(urls) THEN "file" ELSE "finish"
    /\ i' = 0
    /\ UNCHANGED <<impl, host, job, lastDevice, renderer, platform, installed, replies, checks, pdfFlag, kinds, clock, tmpDirs, tmpDisk, running, response, tempFiles, pdfImages, pageNum, printers, libreOffice, q, isConverted, tempDir,
                   fsFiles, madeFiles, window, errorBox, work, submissions,
                   progress, url, loaded, result>>

FileTypeLabel(index) ==
    IF isDocument(job, urls[index + 1], index) THEN "document"
    ELSE IF isPdf(job, urls[index + 1], index) THEN "PDF"
    ELSE "image"

\* Top of the loop body: url = urls[i], file type decision, first event.
StartFile ==
    /\ impl \in Revision004 /\ pc = "file"
    /\ url' = urls[i + 1]
    /\ isConverted' = FALSE
    /\ progress' = Append(progress,
                     Event(i, "downloading", <<"Processing", FileTypeLabel(i)>>, urls[i + 1]))
    /\ pc' = IF isDocument(job, urls[i + 1], i) THEN "download" ELSE "load"
    /\ UNCHANGED <<impl, host, job, lastDevice, renderer, platform, installed, replies, checks, pdfFlag, kinds, clock, tmpDirs, tmpDisk, running, response, tempFiles, pdfImages, pageNum, printers, libreOffice, i, q, targetPrinter,
                   tempDir, fsFiles, madeFiles, window, errorBox, queries,
                   work, submissions, err, loaded, result>>

\* await downloadFile(url, downloadPath); tempFilePaths.push(downloadPath)
DownloadDocument ==
    /\ impl \in Revision004 /\ pc = "download"
    /\ work' = Append(work, [op |-> "download", file |-> i])
    /\ LET path == DownloadPath(i, url)
           sent == Append(progress, Event(i, "downloading", <<"Downloading", "document">>, url))
       IN  /\ madeFiles' = madeFiles \cup {path}
           /\ \E chain \in ResponseChains :
                LET d == downloadFile(chain)
                    m == IF d.status = "error" THEN MsgNetwork
                         ELSE MsgDownloadStatus(d.status)
                IN  /\ response' = d.status
                    /\ IF d.settled = "resolved"
                       THEN /\ fsFiles' = fsFiles \cup {[path |-> path, content |-> url]}
                            /\ progress' = sent
                            /\ err' = err
                            /\ pc' = "convert"
                       ELSE IF d.settled = "rejected"
                       THEN /\ fsFiles' = fsFiles
                            /\ progress' = Append(sent, Event(i, "error", MsgFailedToConvert(m), url))
                            /\ err' = Error(MsgFailedToConvert(m))
                            /\ pc' = "catch"
                       ELSE /\ fsFiles' = fsFiles
                            /\ progress' = sent
                            /\ err' = err
                            /\ pc' = "blocked"
    /\ UNCHANGED <<impl, host, job, lastDevice, renderer, platform, installed, replies, checks, pdfFlag, kinds, clock, tmpDirs, tmpDisk, running, tempFiles, pdfImages, pageNum, printers, libreOffice, i, q, targetPrinter,
                   isConverted, tempDir, window, errorBox, queries,
                   submissions, url, loaded, result>>

\* const pdfPath = await convertToPDF(downloadPath, tempDir); read it back as
\* a data URL.
ConvertDocument ==
    /\ impl \in Revision004 /\ pc = "convert"
    /\ work' = Append(work, [op |-> "convert", file |-> i])
    /\ LET input == DownloadPath(i, url)
           pdf == PdfPath(input)
           content == (CHOOSE f \in fsFiles : f.path = input).content
           sent == Append(progress, Event(i, "converting", <<"Converting", "document">>, url))
       IN  \E outcome \in {"ok", "failed", "failedPartial", "noOutput", "never"} :
             /\ IF outcome \in {"ok", "failedPartial"}
                THEN /\ fsFiles' = fsFiles \cup {[path |-> pdf, content |-> content]}
                     /\ madeFiles' = madeFiles \cup {pdf}
                ELSE /\ fsFiles' = fsFiles
                     /\ madeFiles' = madeFiles
             /\ IF outcome = "ok"
                THEN /\ progress' = sent
                     /\ url' = DataUrl(content)
                     /\ isConverted' = TRUE
                     /\ err' = err
                     /\ pc' = "load"
                ELSE IF outcome = "never"
                THEN /\ progress' = sent
                     /\ url' = url
                     /\ isConverted' = isConverted
                     /\ err' = err
                     /\ pc' = "blocked"
                ELSE /\ LET m == IF outcome = "noOutput" THEN MsgOutputNotFound
                                 ELSE MsgConversionFailed
                        IN  /\ progress' = Append(sent, Event(i, "error", MsgFailedToConvert(m), url))
                            /\ err' = Error(MsgFailedToConvert(m))
                            /\ pc' = "catch"
                     /\ url' = url
                     /\ isConverted' = isConverted
    /\ UNCHANGED <<impl, host, job, lastDevice, renderer, platform, installed, replies, checks, pdfFlag, kinds, clock, tmpDirs, tmpDisk, running, response, tempFiles, pdfImages, pageNum, printers, libreOffice, i, q, targetPrinter,
                   tempDir, window, errorBox, queries, submissions, loaded,
                   result>>

\* const isPdfFile = isConvertedDocument || isPdf(job, urls[i], i)
isPdfFile == isConverted \/ isPdf(job, urls[i + 1], i)

\* 'rendering' event, loadURL of the generated HTML, race with the load timer.
LoadPage ==
    /\ impl \in Revision004 /\ pc = "load"
    /\ progress' = Append(progress,
                     Event(i, "rendering",
                           IF isPdfFile THEN <<"Rendering", "PDF">> ELSE <<"Loading", "image">>,
                           url))
    /\ work' = Append(work, [op |-> "load", file |-> i])
    /\ pdfFlag' = "none"
    /\ checks' = 0
    /\ clock' = 0
    /\ \E outcome \in {"ok", "failed", "timeout", "never"} :
         IF outcome = "ok"
         THEN /\ loaded' = [kind |-> IF isPdfFile THEN "pdf" ELSE "image", url |-> url]
              /\ err' = err
              /\ pc' = "wait"
         ELSE IF outcome = "never"
         THEN /\ loaded' = loaded
              /\ err' = err
              /\ pc' = "blocked"
         ELSE /\ loaded' = IF outcome = "timeout"
                           THEN [kind |-> IF isPdfFile THEN "pdf" ELSE "image", url |-> url]
                           ELSE loaded
              /\ err' = Error(IF outcome = "timeout" THEN MsgLoadTimedOut ELSE MsgLoadFailed)
              /\ pc' = "catch"
    /\ UNCHANGED <<impl, host, job, lastDevice, renderer, platform, installed, replies, kinds, tmpDirs, tmpDisk, running, response, tempFiles, pdfImages, pageNum, printers, libreOffice, i, q, targetPrinter,
                   isConverted, tempDir, fsFiles, madeFiles, window, errorBox,
                   queries, submissions, url, result>>

\* Mutant: the settle delay is left out.
RenderedSteps_NoSettle(f) == <<[op |-> "rendered", file |-> f]>>

\* The wait resolves (render complete), then the settle delay elapses:
\* await new Promise((r) => setTimeout(r, 1000)), 300 ms for an image.
RenderedSteps(f) == <<[op |-> "rendered", file |-> f], [op |-> "settle", file |-> f]>>

\* executeJavaScript(...): the PDF.js polling promise, or the image-load wait;
\* then the settle delay.
WaitRender ==
    /\ impl \in Revision004 /\ pc = "wait"
    /\ impl # "part_004.poll" \/ ~isPdfFile
    /\ \E outcome \in IF isPdfFile THEN {"rendered", "pdfError", "timeout"}
                       ELSE {"rendered", "never"} :
         IF outcome = "rendered"
         THEN /\ work' = work \o RenderedSteps(i)
              /\ err' = err
              /\ pc' = "submit"
         ELSE IF outcome = "never"
         THEN /\ work' = work
              /\ err' = err
              /\ pc' = "blocked"
         ELSE /\ work' = work
              /\ err' = Error(IF outcome = "pdfError" THEN MsgPdfError ELSE MsgPdfRenderTimeout)
              /\ pc' = "catch"
    /\ UNCHANGED <<impl, host, job, lastDevice, renderer, platform, installed, replies, checks, pdfFlag, kinds, clock, tmpDirs, tmpDisk, running, response, tempFiles, pdfImages, pageNum, printers, libreOffice, i, q, targetPrinter,
                   isConverted, tempDir, fsFiles, madeFiles, window, errorBox,
                   queries, submissions, progress, url, loaded, result>>

\* if (checks > 100) of the polling promise, setTimeout(check, 200)
MaxRenderChecks == 100

PollIntervalMs == 200

\* Mutant: the attempt budget is never tested.
PollExpired_Never(n) == FALSE

\* checks > 100
PollExpired(n) == n > MaxRenderChecks

\* One call of check() of the polling promise: checks++, then resolve on
\* window.pdfRendered, reject on window.pdfError, reject on checks > 100, or
\* setTimeout(check, 200).  After resolve: the 1000 ms settle delay.
PollCheck ==
    /\ impl = "part_004.poll" /\ pc = "wait" /\ isPdfFile
    /\ checks' = checks + 1
    /\ IF pdfFlag = "rendered"
       THEN /\ work' = work \o RenderedSteps(i)
            /\ err' = err
            /\ pc' = "submit"
       ELSE IF pdfFlag = "error"
       THEN /\ work' = work
            /\ err' = Error(MsgPdfError)
            /\ pc' = "catch"
       ELSE IF PollExpired(checks + 1)
       THEN /\ work' = work
            /\ err' = Error(MsgPdfRenderTimeout)
            /\ pc' = "catch"
       ELSE /\ work' = work
            /\ err' = err
            /\ pc' = "pollSleep"
    /\ UNCHANGED <<impl, host, job, lastDevice, renderer, printers, libreOffice, i, q, targetPrinter,
                   isConverted, tempDir, fsFiles, madeFiles, window,
                   errorBox, queries, submissions, progress, url,
                   loaded, tempFiles, pdfImages, pageNum, response, kinds,
                   clock, tmpDirs, tmpDisk, running, platform, installed,
                   replies, pdfFlag, result>>

\* The 200 ms timer of setTimeout(check, 200) fires.
PollTimer ==
    /\ impl = "part_004.poll" /\ pc = "pollSleep"
    /\ clock' = clock + PollIntervalMs
    /\ pc' = "wait"
    /\ UNCHANGED <<impl, host, job, lastDevice, renderer, printers, libreOffice, i, q, targetPrinter,
                   isConverted, tempDir, fsFiles, madeFiles, window,
                   errorBox, queries, work, submissions, progress, err, url,
                   loaded, tempFiles, pdfImages, pageNum, response, kinds,
                   tmpDirs, tmpDisk, running, platform, installed, replies,
                   checks, pdfFlag, result>>

\* renderPDF() of the page ends while the job waits: window.pdfRendered = true,
\* or window.pdfError = error.message.
RenderPdf ==
    /\ impl = "part_004.poll" /\ pc \in {"wait", "pollSleep"} /\ isPdfFile
    /\ pdfFlag = "none"
    /\ pdfFlag' \in {"rendered", "error"}
    /\ UNCHANGED <<impl, host, job, lastDevice, renderer, printers, libreOffice, pc, i, q, targetPrinter,
                   isConverted, tempDir, fsFiles, madeFiles, window,
                   errorBox, queries, work, submissions, progress, err, url,
                   loaded, tempFiles, pdfImages, pageNum, response, kinds,
                   clock, tmpDirs, tmpDisk, running, platform, installed,
                   replies, checks, result>>

\* Mutant: the per-file list is ignored.
getFileColorMode_GlobalOnly(j, index) ==
    ToLowerCase(IF j.color_mode # ModeNone THEN j.color_mode ELSE ModeColor)

\* getFileColorMode: color_modes[index] when it is not undefined (an entry
\* beyond the end of the list is undefined), else color_mode; each || "color".
getFileColorMode(j, index) ==
    IF index + 1 \in DOMAIN j.color_modes
    THEN ToLowerCase(IF j.color_modes[index + 1] # ModeNone
                     THEN j.color_modes[index + 1] ELSE ModeColor)
    ELSE ToLowerCase(IF j.color_mode # ModeNone THEN j.color_mode ELSE ModeColor)

\* pageSize: { width: 210000, height: 297000 } (microns) of the PDF branch
PdfPageWidth == 210000

PdfPageHeight == 297000

\* Mutant: the print dialog is shown.
printOpts_Dialog(page, device, color) ==
    [PrintCall(page, 1, device, color) EXCEPT !.silent = FALSE]

\* printOpts of the PDF branch (custom page size) and of the image branch.
printOpts(page, device, color) ==
    [PrintCall(page, 1, device, color) EXCEPT
       !.pageSize = IF page.kind = "pdf" THEN CustomSize(PdfPageWidth, PdfPageHeight)
                    ELSE NamedSize("A4")]

\* 'printing' event and doPrint: contents.print(printOpts, callback)
SubmitPrint ==
    /\ impl \in Revision004 /\ pc = "submit"
    /\ progress' = Append(progress,
                     Event(i, "printing",
                           IF isPdfFile THEN <<"Printing", "file">> ELSE <<"Printing", "image">>,
                           url))
    /\ submissions' = Append(submissions,
                        printOpts(loaded, targetPrinter,
                                  getFileColorMode(job, i) = ModeColor))
    /\ work' = Append(work, [op |-> "print", file |-> i])
    /\ pc' = "printing"
    /\ UNCHANGED <<impl, host, job, lastDevice, renderer, platform, installed, replies, checks, pdfFlag, kinds, clock, tmpDirs, tmpDisk, running, response, tempFiles, pdfImages, pageNum, printers, libreOffice, i, q, targetPrinter,
                   isConverted, tempDir, fsFiles, madeFiles, window, errorBox,
                   queries, err, url, loaded, result>>

\* Mutant: no default text when the OS gives no reason.
PrintError_NoDefault(reason) == Error(reason)

\* new Error(reason || "Print failed")
PrintError(reason) == Error(IF reason # <<>> THEN reason ELSE MsgPrintFailed)

\* The print callback: (success, reason) => success ? resolve() : reject(...)
PrintCallback ==
    /\ impl \in Revision004 /\ pc = "printing"
    /\ \/ /\ progress' = Append(progress,
                           Event(i, "completed", <<"File", "printed", "successfully">>, url))
          /\ work' = Append(work, [op |-> "printed", file |-> i])
          /\ i' = i + 1
          /\ pc' = IF i + 1 < Len(urls) THEN "file" ELSE "finish"
          /\ err' = err
       \/ \E reason \in PrintReasons :
          /\ err' = PrintError(reason)
          /\ pc' = "catch"
          /\ UNCHANGED <<progress, i, work>>
       \/ /\ pc' = "blocked"
          /\ UNCHANGED <<progress, i, err, work>>
    /\ UNCHANGED <<impl, host, job, lastDevice, renderer, platform, installed, replies, checks, pdfFlag, kinds, clock, tmpDirs, tmpDisk, running, response, tempFiles, pdfImages, pageNum, printers, libreOffice, q, targetPrinter,
                   isConverted, tempDir, fsFiles, madeFiles, window, errorBox,
                   queries, submissions, url, loaded, result>>

\* Mutant: a non-recursive removal, which fails on a directory with files.
Cleanup_NonRecursive ==
    /\ tempDir' = IF tempDir = "exists" /\ fsFiles = {} THEN "removed" ELSE tempDir
    /\ fsFiles' = fsFiles

\* fs.rmSync(tempDir, { recursive: true, force: true })
Cleanup ==
    /\ tempDir' = IF tempDir = "exists" THEN "removed" ELSE tempDir
    /\ fsFiles' = {}

\* After the loop: printWindow.close() and cleanup; printJob resolves.
FinishJob ==
    /\ impl \in Revision004 /\ pc = "finish"
    /\ window' = "closed"
    /\ Cleanup
    /\ pc' = "resolved"
    /\ UNCHANGED <<impl, host, job, lastDevice, renderer, platform, installed, replies, checks, pdfFlag, kinds, clock, tmpDirs, tmpDisk, running, response, tempFiles, pdfImages, pageNum, printers, libreOffice, i, q, targetPrinter,
                   isConverted, madeFiles, errorBox, queries, work,
                   submissions, progress, err, url, loaded, result>>

\* Mutant: best-effort continuation, the failed file is skipped.
CatchJobError_SkipFile ==
    /\ impl \in Revision004 /\ pc = "catch"
    /\ err' = err
    /\ IF targetPrinter # "" /\ i + 1 < Len(urls)
       THEN /\ i' = i + 1
            /\ pc' = "file"
            /\ UNCHANGED <<window, tempDir, fsFiles>>
       ELSE /\ i' = i
            /\ window' = "closed"
            /\ Cleanup
            /\ pc' = "rejected"
    /\ UNCHANGED <<impl, host, job, lastDevice, renderer, platform, installed, replies, checks, pdfFlag, kinds, clock, tmpDirs, tmpDisk, running, response, tempFiles, pdfImages, pageNum, printers, libreOffice, q, targetPrinter,
                   isConverted, madeFiles, errorBox, queries, work,
                   submissions, progress, url, loaded, result>>

\* catch (error) { printWindow.close(); cleanup; throw error; }
CatchJobError ==
    /\ impl \in Revision004 /\ pc = "catch"
    /\ window' = "closed"
    /\ Cleanup
    /\ err' = err
    /\ pc' = "rejected"
    /\ UNCHANGED <<impl, host, job, lastDevice, renderer, platform, installed, replies, checks, pdfFlag, kinds, clock, tmpDirs, tmpDisk, running, response, tempFiles, pdfImages, pageNum, printers, libreOffice, i, q, targetPrinter,
                   isConverted, madeFiles, errorBox, queries, work,
                   submissions, progress, url, loaded, result>>

\* Handler, after await printJob(...): job-level 'completed' event, result.
HandlerReturn ==
    /\ impl \in Revision004 /\ pc = "resolved"
    /\ progress' = Append(progress, JobEvent("completed", MsgJobCompleted))
    /\ result' = [settled |-> "returned", success |-> TRUE, text |-> MsgJobCompleted]
    /\ pc' = "done"
    /\ UNCHANGED <<impl, host, job, lastDevice, renderer, platform, installed, replies, checks, pdfFlag, kinds, clock, tmpDirs, tmpDisk, running, response, tempFiles, pdfImages, pageNum, printers, libreOffice, i, q, targetPrinter,
                   isConverted, tempDir, fsFiles, madeFiles, window, errorBox,
                   queries, work, submissions, err, url, loaded>>

\* Handler, catch (err): job-level 'error' event, { success: false, error }.
HandlerCatch ==
    /\ impl \in Revision004 /\ pc = "rejected"
    /\ progress' = Append(progress, JobEvent("error", err.msg))
    /\ result' = [settled |-> "returned", success |-> FALSE, text |-> err.msg]
    /\ pc' = "done"
    /\ UNCHANGED <<impl, host, job, lastDevice, renderer, platform, installed, replies, checks, pdfFlag, kinds, clock, tmpDirs, tmpDisk, running, response, tempFiles, pdfImages, pageNum, printers, libreOffice, i, q, targetPrinter,
                   isConverted, tempDir, fsFiles, madeFiles, window, errorBox,
                   queries, work, submissions, err, url, loaded>>

Next ==
    \/ ValidateInput
    \/ CheckLibreOffice
    \/ CreateTempDirAndWindow
    \/ ResolvePrinter
    \/ StartFile
    \/ DownloadDocument
    \/ ConvertDocument
    \/ LoadPage
    \/ WaitRender
    \/ SubmitPrint
    \/ PrintCallback
    \/ FinishJob
    \/ CatchJobError
    \/ HandlerReturn
    \/ HandlerCatch

Spec == Init004 /\ [][Next]_vars

-----------------------------------------------------------------------------
(* getFileType, PRINT_JOB handler and printJob of src/index.js (lines 73-460) *)

\* Some token of the set is a substring of the hint.
IncludesAny(ft, tokens) == \E t \in tokens : Includes(ft, t)

ExcelTokens == { <<"e","x","c","e","l">>, <<"x","l","s","x">>, <<"x","l","s">>, <<"s","p","r","e","a","d","s","h","e","e","t">> }

WordTokens == { <<"w","o","r","d">>, <<"d","o","c","x">>, <<"d","o","c">>, <<"d","o","c","u","m","e","n","t">> }

TextTokens == { <<"t","e","x","t">>, <<"t","x","t">> }

ImageTokens == { <<"i","m","a","g","e">>, <<"p","n","g">>, <<"j","p","g">>, <<"j","p","e","g">>, <<"g","i","f">>, <<"w","e","b","p">> }

CsvToken == <<"c","s","v">>

ExcelExts == { <<"x","l","s","x">>, <<"x","l","s">> }

WordExts == { <<"d","o","c","x">>, <<"d","o","c">> }

getFileType(j, u, index) ==
    LET ft == FileTypeHint(j, index)
        urlStr == ToLowerCase(u)
    IN  IF ft # <<>> /\ Includes(ft, PdfExt) THEN "pdf"
        ELSE IF ft # <<>> /\ IncludesAny(ft, ExcelTokens) THEN "excel"
        ELSE IF ft # <<>> /\ IncludesAny(ft, WordTokens) THEN "word"
        ELSE IF ft # <<>> /\ Includes(ft, CsvToken) THEN "csv"
        ELSE IF ft # <<>> /\ IncludesAny(ft, TextTokens) THEN "text"
        ELSE IF ft # <<>> /\ IncludesAny(ft, ImageTokens) THEN "image"
        ELSE IF TestExt(urlStr, {PdfExt}) THEN "pdf"
        ELSE IF TestExt(urlStr, ExcelExts) THEN "excel"
        ELSE IF TestExt(urlStr, WordExts) THEN "word"
        ELSE IF TestExt(urlStr, {CsvToken}) THEN "csv"
        ELSE IF TestExt(urlStr, {<<"t","x","t">>}) THEN "text"
        ELSE "image"

\* Math.max(1, parseInt(quantity, 10) || 1)
qty == IF job.quantity = 0 \/ job.quantity < 1 THEN 1 ELSE job.quantity

IndexJobs == { j \in Jobs : j.deviceName = "" }

InitIndex ==
    /\ impl = "index"
    /\ job \in IndexJobs
    /\ printers \in PrinterLists
    /\ libreOffice = FALSE
    /\ pc = "idle"
    /\ i = 0
    /\ q = 0
    /\ targetPrinter = ""
    /\ isConverted = FALSE
    /\ tempDir = "none"
    /\ fsFiles = {}
    /\ madeFiles = {}
    /\ window = "none"
    /\ errorBox = FALSE
    /\ queries = 0
    /\ work = <<>>
    /\ submissions = <<>>
    /\ progress = <<>>
    /\ err = NoError
    /\ url = <<>>
    /\ loaded = NoPage
    /\ tempFiles = <<>>
    /\ pdfImages = <<>>
    /\ pageNum = 0
    /\ response = ""
    /\ platform = "linux"
    /\ installed = IF libreOffice THEN {LIBRE_OFFICE_PATHS.linux} ELSE {}
    /\ replies = <<>>
    /\ checks = 0
    /\ pdfFlag = "none"
    /\ lastDevice = ""
    /\ host = NormalHost
    /\ renderer = <<>>
    /\ kinds = <<>>
    /\ clock = 0
    /\ tmpDirs = {}
    /\ tmpDisk = {}
    /\ running = <<>>
    /\ result = NoResult

fileType == getFileType(job, urls[i + 1], i)

IxValidateInput ==
    /\ impl = "index" /\ pc = "idle"
    /\ IF InvalidInput(job)
       THEN /\ err' = Error(MsgInput)
            /\ pc' = "rejected"
       ELSE /\ err' = err
            /\ pc' = "setup"
    /\ UNCHANGED <<impl, host, job, lastDevice, renderer, platform, installed, replies, checks, pdfFlag, kinds, clock, tmpDirs, tmpDisk, running, response, tempFiles, pdfImages, pageNum, printers, libreOffice, i, q, targetPrinter,
                   isConverted, tempDir, fsFiles, madeFiles, window, errorBox,
                   queries, work, submissions, progress, url, loaded, result>>

IxCreateWindow ==
    /\ impl = "index" /\ pc = "setup"
    /\ window' = "open"
    /\ pc' = "resolvePrinter"
    /\ UNCHANGED <<impl, host, job, lastDevice, renderer, platform, installed, replies, checks, pdfFlag, kinds, clock, tmpDirs, tmpDisk, running, response, tempFiles, pdfImages, pageNum, printers, libreOffice, i, q, targetPrinter,
                   isConverted, tempDir, fsFiles, madeFiles, errorBox, queries,
                   work, submissions, progress, err, url, loaded, result>>

IxResolvePrinter ==
    /\ impl = "index" /\ pc = "resolvePrinter"
    /\ queries' = queries + 1
    /\ LET l == getPrintersList(TRUE, host.enumeration, printers)
           r == IF l.error.thrown THEN [error |-> l.error, name |-> ""]
                ELSE getTargetPrinter(l.value, RequestedDevice(job))
       IN  IF r.error.thrown
           THEN /\ err' = r.error
                /\ targetPrinter' = targetPrinter
                /\ pc' = "catch"
           ELSE /\ err' = err
                /\ targetPrinter' = r.name
                /\ pc' = "file"
    /\ i' = 0
    /\ q' = 0
    /\ UNCHANGED <<impl, host, job, lastDevice, renderer, platform, installed, replies, checks, pdfFlag, kinds, clock, tmpDirs, tmpDisk, running, response, tempFiles, pdfImages, pageNum, printers, libreOffice, isConverted, tempDir,
                   fsFiles, madeFiles, window, errorBox, work, submissions,
                   progress, url, loaded, result>>

\* Loop body head: url = urls[i], fileType; PDFs and images need no download.
IxStartFile ==
    /\ impl = "index" /\ pc = "file"
    /\ url' = urls[i + 1]
    /\ isConverted' = FALSE
    /\ pc' = IF fileType \in {"pdf", "image"} THEN "load" ELSE "download"
    /\ UNCHANGED <<impl, host, job, lastDevice, renderer, platform, installed, replies, checks, pdfFlag, kinds, clock, tmpDirs, tmpDisk, running, response, tempFiles, pdfImages, pageNum, printers, libreOffice, i, q, targetPrinter,
                   tempDir, fsFiles, madeFiles, window, errorBox, queries,
                   work, submissions, progress, err, loaded, result>>

\* net.request of Electron follows every redirect status and gives up with
\* an error after too many of them; the response handler of downloadFile
\* resolves with the body whatever the status; nothing bounds the wait.
RECURSIVE netDownload(_)
netDownload(chain) ==
    IF chain = <<>> THEN Rejected("error")
    ELSE LET r == Head(chain)
         IN  IF r \in {"301", "302", "303", "307", "308"} THEN netDownload(Tail(chain))
             ELSE IF r = "none" THEN Pending(r)
             ELSE IF r = "error" THEN Rejected(r)
             ELSE Resolved(r)

\* const buffer = await downloadFile(url)
IxDownload ==
    /\ impl = "index" /\ pc = "download"
    /\ work' = Append(work, [op |-> "download", file |-> i])
    /\ \E chain \in ResponseChains :
         LET d == netDownload(chain)
         IN  /\ response' = d.status
             /\ IF d.settled = "resolved"
                THEN /\ err' = err
                     /\ pc' = "convert"
                ELSE IF d.settled = "rejected"
                THEN /\ err' = Error(MsgNetwork)
                     /\ pc' = "catch"
                ELSE /\ err' = err
                     /\ pc' = "blocked"
    /\ UNCHANGED <<impl, host, job, lastDevice, renderer, platform, installed, replies, checks, pdfFlag, kinds, clock, tmpDirs, tmpDisk, running, tempFiles, pdfImages, pageNum, printers, libreOffice, i, q, targetPrinter,
                   isConverted, tempDir, fsFiles, madeFiles, window, errorBox,
                   queries, submissions, progress, url, loaded, result>>

\* wordToHtml / excelToHtml / csvToHtml / <pre> of the downloaded buffer
IxConvert ==
    /\ impl = "index" /\ pc = "convert"
    /\ work' = Append(work, [op |-> "convert", file |-> i])
    /\ \E outcome \in {"ok", "failed"} :
         IF outcome = "ok"
         THEN /\ isConverted' = TRUE
              /\ err' = err
              /\ pc' = "load"
         ELSE /\ isConverted' = isConverted
              /\ err' = Error(MsgConversionFailed)
              /\ pc' = "catch"
    /\ UNCHANGED <<impl, host, job, lastDevice, renderer, platform, installed, replies, checks, pdfFlag, kinds, clock, tmpDirs, tmpDisk, running, response, tempFiles, pdfImages, pageNum, printers, libreOffice, i, q, targetPrinter,
                   tempDir, fsFiles, madeFiles, window, errorBox, queries,
                   submissions, progress, url, loaded, result>>

\* loadURL of the HTML; the 10 s timer of the race resolves, it never rejects.
IxLoadPage ==
    /\ impl = "index" /\ pc = "load"
    /\ \E outcome \in {"ok", "failed", "timeout"} :
         /\ work' = IF outcome = "timeout"
                    THEN work \o <<[op |-> "load", file |-> i],
                                   [op |-> "loadTimedOut", file |-> i]>>
                    ELSE Append(work, [op |-> "load", file |-> i])
         /\ IF outcome = "failed"
            THEN /\ loaded' = loaded
                 /\ err' = Error(MsgLoadFailed)
                 /\ pc' = "catch"
            ELSE /\ loaded' = [kind |-> fileType, url |-> url]
                 /\ err' = err
                 /\ pc' = "wait"
    /\ UNCHANGED <<impl, host, job, lastDevice, renderer, platform, installed, replies, checks, pdfFlag, kinds, clock, tmpDirs, tmpDisk, running, response, tempFiles, pdfImages, pageNum, printers, libreOffice, i, q, targetPrinter,
                   isConverted, tempDir, fsFiles, madeFiles, window, errorBox,
                   queries, submissions, progress, url, result>>

\* The render wait; a rejection of the PDF.js polling promise (render error,
\* or more than 100 checks) is caught and only logged ("PDF render issue").
IxWaitRender ==
    /\ impl = "index" /\ pc = "wait"
    /\ \E outcome \in IF fileType = "pdf" THEN {"rendered", "pdfError", "timeout"}
                      ELSE {"rendered"} :
         /\ work' = IF outcome = "rendered" THEN work
                    ELSE Append(work, [op |-> "renderFailed", file |-> i])
         /\ pc' = "submit"
    /\ UNCHANGED <<impl, host, job, lastDevice, renderer, platform, installed, replies, checks, pdfFlag, kinds, clock, tmpDirs, tmpDisk, running, response, tempFiles, pdfImages, pageNum, printers, libreOffice, i, q, targetPrinter,
                   isConverted, tempDir, fsFiles, madeFiles, window, errorBox,
                   queries, submissions, progress, err, url, loaded,
                   result>>

IxSubmitPrint ==
    /\ impl = "index" /\ pc = "submit"
    /\ submissions' = Append(submissions,
                        [PrintCall(loaded, 1, targetPrinter, isColor(job)) EXCEPT
                           !.margins = IF fileType \in {"image", "pdf"} THEN "none"
                                       ELSE "default"])
    /\ pc' = "printing"
    /\ UNCHANGED <<impl, host, job, lastDevice, renderer, platform, installed, replies, checks, pdfFlag, kinds, clock, tmpDirs, tmpDisk, running, response, tempFiles, pdfImages, pageNum, printers, libreOffice, i, q, targetPrinter,
                   isConverted, tempDir, fsFiles, madeFiles, window, errorBox,
                   queries, work, progress, err, url, loaded, result>>

\* Mutant: the loops are nested the other way round, every file is repeated
\* qty times before the next file.
IxAdvance_FileOuter ==
    IF q + 1 < qty THEN [i |-> i, q |-> q + 1, more |-> TRUE]
    ELSE IF i + 1 < Len(urls) THEN [i |-> i + 1, q |-> 0, more |-> TRUE]
    ELSE [i |-> i, q |-> q, more |-> FALSE]

\* for (q < qty) for (i < urls.length): the next iteration, if there is one.
IxAdvance ==
    IF i + 1 < Len(urls) THEN [i |-> i + 1, q |-> q, more |-> TRUE]
    ELSE IF q + 1 < qty THEN [i |-> 0, q |-> q + 1, more |-> TRUE]
    ELSE [i |-> i, q |-> q, more |-> FALSE]

IxPrintCallback ==
    /\ impl = "index" /\ pc = "printing"
    /\ \/ /\ i' = IxAdvance.i
          /\ q' = IxAdvance.q
          /\ pc' = IF IxAdvance.more THEN "file" ELSE "finish"
          /\ err' = err
       \/ \E reason \in PrintReasons :
          /\ err' = PrintError(reason)
          /\ pc' = "catch"
          /\ UNCHANGED <<i, q>>
    /\ UNCHANGED <<impl, host, job, lastDevice, renderer, platform, installed, replies, checks, pdfFlag, kinds, clock, tmpDirs, tmpDisk, running, response, tempFiles, pdfImages, pageNum, printers, libreOffice, targetPrinter,
                   isConverted, tempDir, fsFiles, madeFiles, window, errorBox,
                   queries, work, submissions, progress, url, loaded, result>>

IxFinishJob ==
    /\ impl = "index" /\ pc = "finish"
    /\ window' = "closed"
    /\ pc' = "resolved"
    /\ UNCHANGED <<impl, host, job, lastDevice, renderer, platform, installed, replies, checks, pdfFlag, kinds, clock, tmpDirs, tmpDisk, running, response, tempFiles, pdfImages, pageNum, printers, libreOffice, i, q, targetPrinter,
                   isConverted, tempDir, fsFiles, madeFiles, errorBox, queries,
                   work, submissions, progress, err, url, loaded, result>>

IxCatchJobError ==
    /\ impl = "index" /\ pc = "catch"
    /\ window' = "closed"
    /\ pc' = "rejected"
    /\ UNCHANGED <<impl, host, job, lastDevice, renderer, platform, installed, replies, checks, pdfFlag, kinds, clock, tmpDirs, tmpDisk, running, response, tempFiles, pdfImages, pageNum, printers, libreOffice, i, q, targetPrinter,
                   isConverted, tempDir, fsFiles, madeFiles, errorBox, queries,
                   work, submissions, progress, err, url, loaded, result>>

IxHandlerReturn ==
    /\ impl = "index" /\ pc = "resolved"
    /\ result' = [settled |-> "returned", success |-> TRUE, text |-> MsgJobCompleted]
    /\ pc' = "done"
    /\ UNCHANGED <<impl, host, job, lastDevice, renderer, platform, installed, replies, checks, pdfFlag, kinds, clock, tmpDirs, tmpDisk, running, response, tempFiles, pdfImages, pageNum, printers, libreOffice, i, q, targetPrinter,
                   isConverted, tempDir, fsFiles, madeFiles, window, errorBox,
                   queries, work, submissions, progress, err, url, loaded>>

IxHandlerCatch ==
    /\ impl = "index" /\ pc = "rejected"
    /\ result' = [settled |-> "returned", success |-> FALSE, text |-> err.msg]
    /\ pc' = "done"
    /\ UNCHANGED <<impl, host, job, lastDevice, renderer, platform, installed, replies, checks, pdfFlag, kinds, clock, tmpDirs, tmpDisk, running, response, tempFiles, pdfImages, pageNum, printers, libreOffice, i, q, targetPrinter,
                   isConverted, tempDir, fsFiles, madeFiles, window, errorBox,
                   queries, work, submissions, progress, err, url, loaded>>

NextIndex ==
    \/ IxValidateInput
    \/ IxCreateWindow
    \/ IxResolvePrinter
    \/ IxStartFile
    \/ IxDownload
    \/ IxConvert
    \/ IxLoadPage
    \/ IxWaitRender
    \/ IxSubmitPrint
    \/ IxPrintCallback
    \/ IxFinishJob
    \/ IxCatchJobError
    \/ IxHandlerReturn
    \/ IxHandlerCatch

SpecIndex == InitIndex /\ [][NextIndex]_vars

\* Jobs run by either revision: src/unnamed/part_004 or src/index.js.
SpecOrder == (Init004 \/ InitIndex) /\ [][Next \/ NextIndex]_vars

-----------------------------------------------------------------------------
(* pdfToImages, PRINT_JOB handler and printImages of src/unnamed/part_002    *)

MsgNoPrintersConnect == <<"No","printers","found.","Please","connect","a",
                          "printer","and","try","again.">>

MsgPrinterNotFoundRefresh(name) ==
    <<"Printer", name, "not", "found.", "Please", "select", "another", "or", "refresh.">>

MsgPreparationTimedOut == <<"Print","preparation","timed","out.","Please","try","again.">>

MsgPrintTimedOut == <<"Print","timed","out.","Check","that","the","printer",
                      "is","on","and","connected.">>

\* resolveTargetDevice: as getTargetPrinter, with this revision's messages.
resolveTargetDevice(ps, deviceName) ==
    IF Len(ps) = 0 THEN [error |-> Error(MsgNoPrintersConnect), name |-> ""]
    ELSE IF deviceName = ""
         THEN [error |-> NoError, name |-> DefaultPrinter(ps).name]
    ELSE IF ~ \E k \in DOMAIN ps : ps[k].name = deviceName
         THEN [error |-> Error(MsgPrinterNotFoundRefresh(deviceName)), name |-> ""]
    ELSE [error |-> NoError, name |-> deviceName]

\* urls.every((u, i) => !isPdf(job, u, i))
allImages == \A k \in DOMAIN urls : ~isPdf(job, urls[k], k - 1)

\* file://<temp>/print_page_<Date.now()>_<pageNum>.png written for page n of
\* the PDF rasterized in iteration (q, i).
PagePng(n) == [pdf |-> urls[i + 1], q |-> q, index |-> i, page |-> n]

InitImages ==
    /\ impl = "part_002"
    /\ job \in Jobs
    /\ printers \in PrinterLists
    /\ libreOffice = FALSE
    /\ pc = "idle"
    /\ i = 0
    /\ q = 0
    /\ targetPrinter = ""
    /\ isConverted = FALSE
    /\ tempDir = "none"
    /\ fsFiles = {}
    /\ madeFiles = {}
    /\ window = "none"
    /\ errorBox = FALSE
    /\ queries = 0
    /\ work = <<>>
    /\ submissions = <<>>
    /\ progress = <<>>
    /\ err = NoError
    /\ url = <<>>
    /\ loaded = NoPage
    /\ tempFiles = <<>>
    /\ pdfImages = <<>>
    /\ pageNum = 0
    /\ response = ""
    /\ platform = "linux"
    /\ installed = IF libreOffice THEN {LIBRE_OFFICE_PATHS.linux} ELSE {}
    /\ replies = <<>>
    /\ checks = 0
    /\ pdfFlag = "none"
    /\ lastDevice = ""
    /\ host = NormalHost
    /\ renderer = <<>>
    /\ kinds = <<>>
    /\ clock = 0
    /\ tmpDirs = {}
    /\ tmpDisk = {}
    /\ running = <<>>
    /\ result = NoResult

PiValidateInput ==
    /\ impl = "part_002" /\ pc = "idle"
    /\ IF InvalidInput(job)
       THEN /\ err' = Error(MsgInput)
            /\ pc' = "rejected"
       ELSE /\ err' = err
            /\ pc' = "setup"
    /\ UNCHANGED <<impl, host, job, lastDevice, renderer, platform, installed, replies, checks, pdfFlag, kinds, clock, tmpDirs, tmpDisk, running, response, tempFiles, pdfImages, pageNum, printers,
                   libreOffice, i, q, targetPrinter, isConverted, tempDir,
                   fsFiles, madeFiles, window, errorBox, queries, work,
                   submissions, progress, url, loaded, result>>

PiCreateWindow ==
    /\ impl = "part_002" /\ pc = "setup"
    /\ window' = "open"
    /\ pc' = IF allImages THEN "allLoad" ELSE "file"
    /\ UNCHANGED <<impl, host, job, lastDevice, renderer, platform, installed, replies, checks, pdfFlag, kinds, clock, tmpDirs, tmpDisk, running, response, tempFiles, pdfImages, pageNum, printers,
                   libreOffice, i, q, targetPrinter, isConverted, tempDir,
                   fsFiles, madeFiles, errorBox, queries, work, submissions,
                   progress, err, url, loaded, result>>

\* All images: await loadURL of one HTML holding every image; a rejection
\* leaves printImages before its try block.
PiAllLoad ==
    /\ impl = "part_002" /\ pc = "allLoad"
    /\ work' = Append(work, [op |-> "load", file |-> 0])
    /\ \E outcome \in {"ok", "failed"} :
         IF outcome = "ok"
         THEN /\ loaded' = [kind |-> "images", url |-> urls]
              /\ err' = err
              /\ pc' = "allReady"
         ELSE /\ loaded' = loaded
              /\ err' = Error(MsgLoadFailed)
              /\ pc' = "rejected"
    /\ UNCHANGED <<impl, host, job, lastDevice, renderer, platform, installed, replies, checks, pdfFlag, kinds, clock, tmpDirs, tmpDisk, running, response, tempFiles, pdfImages, pageNum, printers,
                   libreOffice, i, q, targetPrinter, isConverted, tempDir,
                   fsFiles, madeFiles, window, errorBox, queries, submissions,
                   progress, url, result>>

\* Promise.race([readyPromise, 10 s timer])
PiAllReady ==
    /\ impl = "part_002" /\ pc = "allReady"
    /\ \E outcome \in {"ready", "timeout"} :
         IF outcome = "ready"
         THEN /\ err' = err
              /\ pc' = "allResolve"
         ELSE /\ err' = Error(MsgPreparationTimedOut)
              /\ pc' = "allCatch"
    /\ UNCHANGED <<impl, host, job, lastDevice, renderer, platform, installed, replies, checks, pdfFlag, kinds, clock, tmpDirs, tmpDisk, running, response, tempFiles, pdfImages, pageNum, printers,
                   libreOffice, i, q, targetPrinter, isConverted, tempDir,
                   fsFiles, madeFiles, window, errorBox, queries, work,
                   submissions, progress, url, loaded, result>>

\* const targetDevice = await resolveTargetDevice(printWindow.webContents)
PiAllResolveDevice ==
    /\ impl = "part_002" /\ pc = "allResolve"
    /\ queries' = queries + 1
    /\ LET r == resolveTargetDevice(printers, RequestedDevice(job))
       IN  IF r.error.thrown
           THEN /\ err' = r.error
                /\ targetPrinter' = targetPrinter
                /\ pc' = "allCatch"
           ELSE /\ err' = err
                /\ targetPrinter' = r.name
                /\ pc' = "allSubmit"
    /\ UNCHANGED <<impl, host, job, lastDevice, renderer, platform, installed, replies, checks, pdfFlag, kinds, clock, tmpDirs, tmpDisk, running, response, tempFiles, pdfImages, pageNum, printers,
                   libreOffice, i, q, isConverted, tempDir, fsFiles,
                   madeFiles, window, errorBox, work, submissions, progress,
                   url, loaded, result>>

\* Image wait (bounded by the 15 s timer), settle delay, then doPrint with
\* copies: qty.
PiAllSubmit ==
    /\ impl = "part_002" /\ pc = "allSubmit"
    /\ submissions' = Append(submissions, PrintCall(loaded, qty, targetPrinter, isColor(job)))
    /\ pc' = "allPrinting"
    /\ UNCHANGED <<impl, host, job, lastDevice, renderer, platform, installed, replies, checks, pdfFlag, kinds, clock, tmpDirs, tmpDisk, running, response, tempFiles, pdfImages, pageNum, printers,
                   libreOffice, i, q, targetPrinter, isConverted, tempDir,
                   fsFiles, madeFiles, window, errorBox, queries, work,
                   progress, err, url, loaded, result>>

\* Promise.race([doPrint(...), 30 s timer])
PiAllPrintCallback ==
    /\ impl = "part_002" /\ pc = "allPrinting"
    /\ \/ /\ err' = err
          /\ pc' = "allFinish"
       \/ \E reason \in PrintReasons :
          /\ err' = PrintError(reason)
          /\ pc' = "allCatch"
       \/ /\ err' = Error(MsgPrintTimedOut)
          /\ pc' = "allCatch"
    /\ UNCHANGED <<impl, host, job, lastDevice, renderer, platform, installed, replies, checks, pdfFlag, kinds, clock, tmpDirs, tmpDisk, running, response, tempFiles, pdfImages, pageNum, printers,
                   libreOffice, i, q, targetPrinter, isConverted, tempDir,
                   fsFiles, madeFiles, window, errorBox, queries, work,
                   submissions, progress, url, loaded, result>>

\* printWindow.close(); resolve()
PiAllFinish ==
    /\ impl = "part_002" /\ pc = "allFinish"
    /\ window' = "closed"
    /\ pc' = "resolved"
    /\ UNCHANGED <<impl, host, job, lastDevice, renderer, platform, installed, replies, checks, pdfFlag, kinds, clock, tmpDirs, tmpDisk, running, response, tempFiles, pdfImages, pageNum, printers,
                   libreOffice, i, q, targetPrinter, isConverted, tempDir,
                   fsFiles, madeFiles, errorBox, queries, work, submissions,
                   progress, err, url, loaded, result>>

\* catch (error) { printWindow.close(); reject(error); }
PiAllCatch ==
    /\ impl = "part_002" /\ pc = "allCatch"
    /\ window' = "closed"
    /\ pc' = "rejected"
    /\ UNCHANGED <<impl, host, job, lastDevice, renderer, platform, installed, replies, checks, pdfFlag, kinds, clock, tmpDirs, tmpDisk, running, response, tempFiles, pdfImages, pageNum, printers,
                   libreOffice, i, q, targetPrinter, isConverted, tempDir,
                   fsFiles, madeFiles, errorBox, queries, work, submissions,
                   progress, err, url, loaded, result>>

\* Mixed path, loop body head: const url = urls[i]; PDF or image.
PiStartFile ==
    /\ impl = "part_002" /\ pc = "file"
    /\ url' = urls[i + 1]
    /\ pdfImages' = <<>>
    /\ pageNum' = 0
    /\ pc' = IF isPdf(job, urls[i + 1], i) THEN "rasterize" ELSE "load"
    /\ UNCHANGED <<impl, host, job, lastDevice, renderer, platform, installed, replies, checks, pdfFlag, kinds, clock, tmpDirs, tmpDisk, running, response, tempFiles, printers, libreOffice, i, q,
                   targetPrinter, isConverted, tempDir, fsFiles, madeFiles,
                   window, errorBox, queries, work, submissions, progress,
                   err, loaded, result>>

\* pdf.numPages of the document behind a URL: the same every time the URL is
\* fetched.
numPages(u) == MaxPages

\* const pdfImages = await pdfToImages(url); tempFiles.push(...pdfImages).
\* pdfToImages writes one PNG per page; when it throws at a page, the pages
\* written before stay on disk and are not returned.
PiRasterize ==
    /\ impl = "part_002" /\ pc = "rasterize"
    /\ work' = Append(work, [op |-> "rasterize", file |-> i])
    /\ \E written \in 0..numPages(url) :
         LET pngs == [n \in 1..written |-> PagePng(n)]
         IN  /\ fsFiles' = fsFiles \cup {pngs[n] : n \in 1..written}
             /\ madeFiles' = madeFiles \cup {pngs[n] : n \in 1..written}
             /\ IF written = numPages(url)
                THEN /\ tempFiles' = tempFiles \o pngs
                     /\ pdfImages' = pngs
                     /\ pageNum' = 1
                     /\ err' = err
                     /\ pc' = "load"
                ELSE /\ UNCHANGED <<tempFiles, pdfImages, pageNum>>
                     /\ err' = Error(MsgPdfError)
                     /\ pc' = "rejected"
    /\ UNCHANGED <<impl, host, job, lastDevice, renderer, platform, installed, replies, checks, pdfFlag, kinds, clock, tmpDirs, tmpDisk, running, response, printers, libreOffice, i, q, targetPrinter,
                   isConverted, tempDir, window, errorBox, queries,
                   submissions, progress, url, loaded, result>>

\* The unit being printed: a page image of the PDF, or the image URL itself.
PiUnit == IF pdfImages # <<>> THEN [kind |-> "page", url |-> pdfImages[pageNum]]
          ELSE [kind |-> "image", url |-> url]

\* await loadURL(...) and the race with the 10 s timer; nothing catches a
\* rejection here.
PiLoadPage ==
    /\ impl = "part_002" /\ pc = "load"
    /\ work' = Append(work, [op |-> "load", file |-> i])
    /\ \E outcome \in {"ok", "failed", "timeout"} :
         IF outcome = "ok"
         THEN /\ loaded' = PiUnit
              /\ err' = err
              /\ pc' = "resolve"
         ELSE /\ loaded' = loaded
              /\ err' = Error(IF outcome = "timeout" THEN MsgPreparationTimedOut
                              ELSE MsgLoadFailed)
              /\ pc' = "rejected"
    /\ UNCHANGED <<impl, host, job, lastDevice, renderer, platform, installed, replies, checks, pdfFlag, kinds, clock, tmpDirs, tmpDisk, running, response, tempFiles, pdfImages, pageNum, printers,
                   libreOffice, i, q, targetPrinter, isConverted, tempDir,
                   fsFiles, madeFiles, window, errorBox, queries, submissions,
                   progress, url, result>>

\* if (targetDevice === null) { try { targetDevice = await
\* resolveTargetDevice(...) } catch (e) { printWindow.close(); throw e; } }
PiResolveDevice ==
    /\ impl = "part_002" /\ pc = "resolve"
    /\ IF targetPrinter = ""
       THEN /\ queries' = queries + 1
            /\ LET r == resolveTargetDevice(printers, RequestedDevice(job))
               IN  IF r.error.thrown
                   THEN /\ err' = r.error
                        /\ targetPrinter' = targetPrinter
                        /\ window' = "closed"
                        /\ pc' = "rejected"
                   ELSE /\ err' = err
                        /\ targetPrinter' = r.name
                        /\ window' = window
                        /\ pc' = "submit"
       ELSE /\ pc' = "submit"
            /\ UNCHANGED <<queries, err, targetPrinter, window>>
    /\ UNCHANGED <<impl, host, job, lastDevice, renderer, platform, installed, replies, checks, pdfFlag, kinds, clock, tmpDirs, tmpDisk, running, response, tempFiles, pdfImages, pageNum, printers,
                   libreOffice, i, q, isConverted, tempDir, fsFiles,
                   madeFiles, errorBox, work, submissions, progress, url,
                   loaded, result>>

\* Image wait, settle delay, doPrint with copies: 1.
PiSubmitPrint ==
    /\ impl = "part_002" /\ pc = "submit"
    /\ submissions' = Append(submissions, PrintCall(loaded, 1, targetPrinter, isColor(job)))
    /\ pc' = "printing"
    /\ UNCHANGED <<impl, host, job, lastDevice, renderer, platform, installed, replies, checks, pdfFlag, kinds, clock, tmpDirs, tmpDisk, running, response, tempFiles, pdfImages, pageNum, printers,
                   libreOffice, i, q, targetPrinter, isConverted, tempDir,
                   fsFiles, madeFiles, window, errorBox, queries, work,
                   progress, err, url, loaded, result>>

\* Mutant: the quantity loop is left out, every file is printed once.
PiAdvance_NoRepeat ==
    IF i + 1 < Len(urls) THEN [i |-> i + 1, q |-> q, more |-> TRUE]
    ELSE [i |-> i, q |-> q, more |-> FALSE]

\* for (q < qty) for (i < urls.length): the next iteration, if there is one.
PiAdvance ==
    IF i + 1 < Len(urls) THEN [i |-> i + 1, q |-> q, more |-> TRUE]
    ELSE IF q + 1 < qty THEN [i |-> 0, q |-> q + 1, more |-> TRUE]
    ELSE [i |-> i, q |-> q, more |-> FALSE]

\* Promise.race([doPrint(...), 30 s timer]); then the next page, file or copy.
PiPrintCallback ==
    /\ impl = "part_002" /\ pc = "printing"
    /\ \/ /\ err' = err
          /\ IF pdfImages # <<>> /\ pageNum < Len(pdfImages)
             THEN /\ pageNum' = pageNum + 1
                  /\ pc' = "load"
                  /\ UNCHANGED <<i, q>>
             ELSE /\ pageNum' = pageNum
                  /\ i' = PiAdvance.i
                  /\ q' = PiAdvance.q
                  /\ pc' = IF PiAdvance.more THEN "file" ELSE "finish"
       \/ \E reason \in PrintReasons :
          /\ err' = PrintError(reason)
          /\ pc' = "rejected"
          /\ UNCHANGED <<i, q, pageNum>>
       \/ /\ err' = Error(MsgPrintTimedOut)
          /\ pc' = "rejected"
          /\ UNCHANGED <<i, q, pageNum>>
    /\ UNCHANGED <<impl, host, job, lastDevice, renderer, platform, installed, replies, checks, pdfFlag, kinds, clock, tmpDirs, tmpDisk, running, response, tempFiles, pdfImages, printers, libreOffice,
                   targetPrinter, isConverted, tempDir, fsFiles, madeFiles,
                   window, errorBox, queries, work, submissions, progress,
                   url, loaded, result>>

\* printWindow.close(); tempFiles.forEach(unlink)
PiFinish ==
    /\ impl = "part_002" /\ pc = "finish"
    /\ window' = "closed"
    /\ fsFiles' = fsFiles \ {tempFiles[k] : k \in DOMAIN tempFiles}
    /\ pc' = "resolved"
    /\ UNCHANGED <<impl, host, job, lastDevice, renderer, platform, installed, replies, checks, pdfFlag, kinds, clock, tmpDirs, tmpDisk, running, response, tempFiles, pdfImages, pageNum, printers,
                   libreOffice, i, q, targetPrinter, isConverted, tempDir,
                   madeFiles, errorBox, queries, work, submissions, progress,
                   err, url, loaded, result>>

PiHandlerReturn ==
    /\ impl = "part_002" /\ pc = "resolved"
    /\ result' = [settled |-> "returned", success |-> TRUE, text |-> MsgJobCompleted]
    /\ pc' = "done"
    /\ UNCHANGED <<impl, host, job, lastDevice, renderer, platform, installed, replies, checks, pdfFlag, kinds, clock, tmpDirs, tmpDisk, running, response, tempFiles, pdfImages, pageNum, printers,
                   libreOffice, i, q, targetPrinter, isConverted, tempDir,
                   fsFiles, madeFiles, window, errorBox, queries, work,
                   submissions, progress, err, url, loaded>>

PiHandlerCatch ==
    /\ impl = "part_002" /\ pc = "rejected"
    /\ result' = [settled |-> "returned", success |-> FALSE, text |-> err.msg]
    /\ pc' = "done"
    /\ UNCHANGED <<impl, host, job, lastDevice, renderer, platform, installed, replies, checks, pdfFlag, kinds, clock, tmpDirs, tmpDisk, running, response, tempFiles, pdfImages, pageNum, printers,
                   libreOffice, i, q, targetPrinter, isConverted, tempDir,
                   fsFiles, madeFiles, window, errorBox, queries, work,
                   submissions, progress, err, url, loaded>>

NextImages ==
    \/ PiValidateInput
    \/ PiCreateWindow
    \/ PiAllLoad
    \/ PiAllReady
    \/ PiAllResolveDevice
    \/ PiAllSubmit
    \/ PiAllPrintCallback
    \/ PiAllFinish
    \/ PiAllCatch
    \/ PiStartFile
    \/ PiRasterize
    \/ PiLoadPage
    \/ PiResolveDevice
    \/ PiSubmitPrint
    \/ PiPrintCallback
    \/ PiFinish
    \/ PiHandlerReturn
    \/ PiHandlerCatch

SpecImages == InitImages /\ [][NextImages]_vars

-----------------------------------------------------------------------------
(* Properties of printJob and the PRINT_JOB handler of src/unnamed/part_004 *)

\* An error was raised by a step of a file (the printer had been resolved).
FileStepFailed == err.thrown /\ targetPrinter # ""

Failure(m) == [settled |-> "returned", success |-> FALSE, text |-> m]

PerFileEvents == { k \in DOMAIN progress : progress[k].fileIndex >= 0 }

CompletedFileEvents ==
    { k \in DOMAIN progress : progress[k].fileIndex >= 0 /\ progress[k].status = "completed" }

C3_HandlerResult ==
    /\ result.settled \in {"none", "returned"}
    /\ (result.settled = "returned") <=> (pc = "done")
    /\ pc = "done" =>
          /\ result.success <=> ~err.thrown
          /\ result.success => result.text = MsgJobCompleted
          /\ ~result.success => result.text = err.msg /\ Len(result.text) > 0

\* The OS reported a print failure without a reason.
C3_Witness ==
    /\ pc = "done" /\ ~result.success
    /\ result.text = MsgPrintFailed

\* C4: a job whose images_urls is missing, not an array or empty fails with
\* the input error, and nothing else happens: no temp directory, no window,
\* no printer query, no work, no per-file event, no print submission.
C4_InputValidation ==
    (/\ \/ job.images_urls.kind \in {"missing", "string"}
        \/ job.images_urls.val = <<>>
     /\ pc # "idle") =>
        /\ err = Error(MsgInput)
        /\ tempDir = "none"
        /\ window = "none"
        /\ queries = 0
        /\ targetPrinter = ""
        /\ work = <<>>
        /\ PerFileEvents = {}
        /\ submissions = <<>>
        /\ pc = "done" => result = Failure(MsgInput)

\* An empty array was rejected.
C4_Witness ==
    /\ pc = "done"
    /\ job.images_urls.kind = "array" /\ Len(urls) = 0
    /\ result = Failure(MsgInput)

RequestedAbsent ==
    /\ RequestedDevice(job) # ""
    /\ ~ \E k \in DOMAIN printers : printers[k].name = RequestedDevice(job)

\* C6 as stated: whenever the requested device is not in the live list, the
\* job that got as far as querying the printers fails with the
\* printer-not-found error naming the device, with no submission.
C6_Original ==
    (pc = "done" /\ RequestedAbsent /\ queries > 0) =>
        /\ result = Failure(MsgPrinterNotFound(RequestedDevice(job)))
        /\ submissions = <<>>

\* C6 amended: the job fails with no submission; when it got as far as
\* querying the printers, the error is the printer-not-found error naming the
\* requested device if the live list is not empty, and "No printers found."
\* if it is empty.
C6_PrinterNotFound ==
    RequestedAbsent =>
        /\ submissions = <<>>
        /\ pc = "done" =>
              /\ ~result.success
              /\ queries > 0 =>
                    result.text = IF Len(printers) = 0 THEN MsgNoPrinters
                                  ELSE MsgPrinterNotFound(RequestedDevice(job))

\* "Canon" was requested through deviceName while only "HP" is installed.
C6_Witness ==
    /\ pc = "done"
    /\ job.deviceName = "Canon"
    /\ Len(printers) = 1
    /\ result = Failure(<<"Printer", "Canon", "not", "found.">>)

\* C7: the resolved device is the requested name when one was requested;
\* otherwise it is the name of a printer flagged isDefault when there is one,
\* and the name of the first entry when there is none.
C7_TargetPrinter ==
    targetPrinter # "" =>
        IF RequestedDevice(job) # ""
        THEN targetPrinter = RequestedDevice(job)
        ELSE IF \E k \in DOMAIN printers : printers[k].isDefault
             THEN \E k \in DOMAIN printers :
                     printers[k].isDefault /\ printers[k].name = targetPrinter
             ELSE targetPrinter = printers[1].name

\* The default printer is not the first entry and was chosen without a request.
C7_Witness ==
    /\ RequestedDevice(job) = ""
    /\ targetPrinter = "Canon"
    /\ printers[1].name = "HP"

\* The job lists an office document, by URL extension or by hint.
ListsOfficeDocument ==
    /\ job.images_urls.kind = "array"
    /\ \E k \in DOMAIN urls : urls[k] = UrlDocx \/ job.file_types[k] = HintDocx

\* C8: with the converter absent, a job listing an office document anywhere
\* starts no download, conversion or page load and makes no submission, and
\* its result is success:false with a message that mentions LibreOffice.
C8_LibreOfficeRequired ==
    (ListsOfficeDocument /\ ~libreOffice) =>
        /\ work = <<>>
        /\ submissions = <<>>
        /\ PerFileEvents = {}
        /\ pc = "done" =>
              /\ ~result.success
              /\ \E k \in DOMAIN result.text : result.text[k] = "LibreOffice"

\* An image precedes the document, and a printer is installed.
C8_Witness ==
    /\ pc = "done" /\ ~libreOffice
    /\ Len(urls) = 2 /\ urls[1] = UrlPng /\ urls[2] = UrlDocx
    /\ Len(printers) > 0
    /\ RequestedDevice(job) = ""

\* C9 as stated: quantity 3 with one image and a working printer gives three
\* submissions (or one with copies = 3) and three completed units of progress.
C9_Original ==
    (/\ pc = "done" /\ result.success
     /\ job.quantity = 3
     /\ job.images_urls.kind = "array" /\ urls = <<UrlPng>>) =>
        /\ \/ Len(submissions) = 3
           \/ Len(submissions) = 1 /\ submissions[1].copies = 3
        /\ Cardinality(CompletedFileEvents) = 3

-----------------------------------------------------------------------------
(* Properties that span the orchestrator revisions *)

\* The job failed because the live printer list was empty.
NoPrintersError ==
    /\ err.thrown
    /\ Len(err.msg) >= 3
    /\ SubSeq(err.msg, 1, 3) = <<"No", "printers", "found.">>

\* C5 (as stated): when the live printer list is empty the job fails with a
\* no-printers error before any download, conversion, rasterization or page
\* load has been started; checked on printImages, all-image and mixed paths.
C5_Original == NoPrintersError => work = <<>>

\* C10: print submissions follow the request order: submission k is for
\* images_urls[k] in printJob of part_004, and in printJob of index.js the
\* list is printed in order once per quantity repetition; a successful job
\* has submitted every file of every repetition.
C10_RequestOrder ==
    /\ \A k \in DOMAIN submissions :
         SourceOf(submissions[k].page.url) = urls[((k - 1) % Len(urls)) + 1]
    /\ (pc = "done" /\ result.success) =>
         Len(submissions) = Len(urls) * (IF impl = "index" THEN qty ELSE 1)

C10_Witness ==
    /\ impl = "index"
    /\ pc = "done" /\ result.success
    /\ job.quantity = 3
    /\ Len(urls) = 2 /\ urls[1] # urls[2]
    /\ Len(submissions) = 6

-----------------------------------------------------------------------------
(* Termination of printJob of src/unnamed/part_004 *)

\* Every step the runtime can take is eventually taken: continuations run,
\* timers fire, and an operation that completes at all does complete.  An
\* operation that never completes leaves the job at "blocked" unless a timer
\* races it.
\* Jobs for one installed printer, with the converter present.
InitLive ==
    /\ Init004
    /\ job.quantity = 1
    /\ RequestedDevice(job) = ""
    /\ Len(printers) = 1
    /\ libreOffice

SpecLive == InitLive /\ [][Next]_vars /\ WF_vars(Next)

\* C11 (as stated): every blocking step is bounded by a timeout, so whatever
\* the downloads, conversions, page loads, image waits and print callbacks
\* do, the handler eventually returns its result.
C11_Original == <>(pc = "done")

-----------------------------------------------------------------------------
(* Progress events of printJob of src/unnamed/part_004 and their delivery   *)
(* to the onProgress callback of hostego.print (src/unnamed/part_003)       *)

\* Position of a status in the documented order
\* downloading < converting < rendering < printing < (completed | error).
StatusRank(status) ==
    CASE status = "downloading" -> 1
      [] status = "converting"  -> 2
      [] status = "rendering"   -> 3
      [] status = "printing"    -> 4
      [] OTHER                  -> 5

\* Mutant: only a 'completed' event ends the listening.
TerminalStatus_CompletedOnly(status) == status = "completed"

TerminalStatus(status) == status \in {"completed", "error"}

\* Positions in progress of the events that carry file index f.
EventsOfFile(f) == { k \in DOMAIN progress : progress[k].fileIndex = f }

\* File indexes whose processing started (the loop body was entered).
StartedFiles == { progress[k].fileIndex : k \in PerFileEvents }

\* C12 (as stated): for each file index the statuses of its events are
\* strictly increasing in the documented order, so none is emitted twice and
\* none after a later one.
C12_Original ==
    \A k, l \in PerFileEvents :
        (k < l /\ progress[k].fileIndex = progress[l].fileIndex) =>
            StatusRank(progress[k].status) < StatusRank(progress[l].status)

\* C13 (as stated): when the job is over, every file that was started has
\* exactly one terminal event with its own index, which is the last event
\* with that index; it is 'error' when the job failed at that file and
\* 'completed' when the file printed.
C13_Original ==
    pc = "done" =>
        \A f \in StartedFiles :
            /\ Cardinality({ k \in EventsOfFile(f) : TerminalStatus(progress[k].status) }) = 1
            /\ \A k \in EventsOfFile(f) :
                  TerminalStatus(progress[k].status) => \A l \in EventsOfFile(f) : l <= k

\* progressListener of hostego.print, run once per PRINT_PROGRESS message in
\* the order they were sent: it calls the callback while it is registered,
\* and removes itself after an event whose status is 'completed' or 'error'.
progressListener(st, event) ==
    IF st.registered
    THEN [registered |-> ~TerminalStatus(event.status),
          calls |-> Append(st.calls, event)]
    ELSE st

RECURSIVE Deliver(_, _)
Deliver(st, events) ==
    IF events = <<>> THEN st
    ELSE Deliver(progressListener(st, Head(events)), Tail(events))

\* The invocations of onProgress so far.
CallbackCalls == Deliver([registered |-> TRUE, calls |-> <<>>], progress).calls

\* C14 (as stated): when all files of a job printed, the callback has
\* received the events of every file, in the order they were sent.
C14_Original ==
    LET perFile(seq) == SelectSeq(seq, LAMBDA e : e.fileIndex >= 0)
    IN  (pc = "done" /\ result.success) => perFile(CallbackCalls) = perFile(progress)

-----------------------------------------------------------------------------
(* Two overlapping PRINT_JOB invocations of printJob (src/unnamed/part_004), *)
(* each converting one office document                                     *)

UrlDocxOther == <<"h","/","d",".","D","o","c","x">>

\* The document each of the two jobs was asked to print.
RequestOf(j) == IF j = 1 THEN UrlDocx ELSE UrlDocxOther

NotStarted == [pc |-> "idle", dir |-> -1, data |-> <<>>, failed |-> FALSE]

InitOverlap ==
    /\ impl = "overlap"
    /\ job = [images_urls |-> [kind |-> "array", val |-> <<UrlDocx>>],
              file_types |-> <<HintNone>>, quantity |-> 1,
              color_mode |-> ModeColor, color_modes |-> <<>>,
              deviceName |-> "", printerName |-> ""]
    /\ printers = << [name |-> "HP", isDefault |-> TRUE] >>
    /\ libreOffice = TRUE
    /\ pc = "idle"
    /\ i = 0
    /\ q = 0
    /\ targetPrinter = ""
    /\ isConverted = FALSE
    /\ tempDir = "none"
    /\ fsFiles = {}
    /\ madeFiles = {}
    /\ window = "none"
    /\ errorBox = FALSE
    /\ queries = 0
    /\ work = <<>>
    /\ submissions = <<>>
    /\ progress = <<>>
    /\ err = NoError
    /\ url = <<>>
    /\ loaded = NoPage
    /\ tempFiles = <<>>
    /\ pdfImages = <<>>
    /\ pageNum = 0
    /\ response = ""
    /\ platform = "linux"
    /\ installed = IF libreOffice THEN {LIBRE_OFFICE_PATHS.linux} ELSE {}
    /\ replies = <<>>
    /\ checks = 0
    /\ pdfFlag = "none"
    /\ lastDevice = ""
    /\ host = NormalHost
    /\ renderer = <<>>
    /\ kinds = <<>>
    /\ result = NoResult
    /\ clock = 0
    /\ tmpDirs = {}
    /\ tmpDisk = {}
    /\ running = [j \in 1..2 |-> NotStarted]

\* The state of a single job, which the overlapping jobs do not use.
singleJobVars ==
    <<impl, job, printers, libreOffice, pc, i, q, targetPrinter, isConverted,
      tempDir, fsFiles, madeFiles, window, errorBox, queries, work,
      submissions, progress, err, url, loaded, tempFiles, pdfImages, pageNum,
      response, kinds, platform, installed, replies, checks, pdfFlag,
      lastDevice, renderer, host, result>>

\* The millisecond clock advances.
ClockTick ==
    /\ impl = "overlap"
    /\ clock < MaxClock
    /\ clock' = clock + 1
    /\ UNCHANGED <<tmpDirs, tmpDisk, running, singleJobVars>>

\* tempDir = <temp>/hostego-print-<Date.now()>; mkdirSync unless it exists.
OvCreateTempDir(j) ==
    /\ impl = "overlap"
    /\ running[j].pc = "idle"
    /\ tmpDirs' = tmpDirs \cup {clock}
    /\ running' = [running EXCEPT ![j].pc = "download", ![j].dir = clock]
    /\ UNCHANGED <<clock, tmpDisk, singleJobVars>>

\* <tempDir>/document-0.<ext> of job j.
OvDownloadPath(j) == [dir |-> running[j].dir, file |-> DownloadPath(0, RequestOf(j))]

\* <tempDir>/document-0.pdf of job j.
OvPdfPath(j) == [dir |-> running[j].dir, file |-> PdfPath(DownloadPath(0, RequestOf(j)))]

\* The file at a path after content was written to it.
WriteFile(disk, path, content) ==
    { f \in disk : f.path # path } \cup {[path |-> path, content |-> content]}

\* await downloadFile(url, downloadPath): createWriteStream fails when the
\* directory is gone; otherwise the file at the path is replaced.
OvDownload(j) ==
    /\ impl = "overlap"
    /\ running[j].pc = "download"
    /\ IF running[j].dir \in tmpDirs
       THEN /\ tmpDisk' = WriteFile(tmpDisk, OvDownloadPath(j), RequestOf(j))
            /\ running' = [running EXCEPT ![j].pc = "convert"]
       ELSE /\ tmpDisk' = tmpDisk
            /\ running' = [running EXCEPT ![j].pc = "catch", ![j].failed = TRUE]
    /\ UNCHANGED <<clock, tmpDirs, singleJobVars>>

\* await convertToPDF(downloadPath, tempDir) and readFileSync(pdfPath): the
\* converter turns whatever is at downloadPath into document-0.pdf, which is
\* read back as the data URL to print.
OvConvert(j) ==
    /\ impl = "overlap"
    /\ running[j].pc = "convert"
    /\ IF \E f \in tmpDisk : f.path = OvDownloadPath(j)
       THEN LET content == (CHOOSE f \in tmpDisk : f.path = OvDownloadPath(j)).content
            IN  /\ tmpDisk' = WriteFile(tmpDisk, OvPdfPath(j), content)
                /\ running' = [running EXCEPT ![j].pc = "finish",
                                              ![j].data = DataUrl(content)]
       ELSE /\ tmpDisk' = tmpDisk
            /\ running' = [running EXCEPT ![j].pc = "catch", ![j].failed = TRUE]
    /\ UNCHANGED <<clock, tmpDirs, singleJobVars>>

\* fs.rmSync(tempDir, { recursive: true, force: true }) after the loop or in
\* the catch block.
OvCleanup(j) ==
    /\ impl = "overlap"
    /\ running[j].pc \in {"finish", "catch"}
    /\ tmpDirs' = tmpDirs \ {running[j].dir}
    /\ tmpDisk' = { f \in tmpDisk : f.path.dir # running[j].dir }
    /\ running' = [running EXCEPT ![j].pc = "done"]
    /\ UNCHANGED <<clock, singleJobVars>>

NextOverlap ==
    \/ ClockTick
    \/ \E j \in 1..2 : OvCreateTempDir(j)
    \/ \E j \in 1..2 : OvDownload(j)
    \/ \E j \in 1..2 : OvConvert(j)
    \/ \E j \in 1..2 : OvCleanup(j)

SpecOverlap == InitOverlap /\ [][NextOverlap]_vars

\* C15 (as stated): two overlapping jobs use distinct temp directories, each
\* job prints the document it downloaded, and no job fails because its files
\* were deleted by the other job.
C15_Original ==
    /\ (running[1].pc # "idle" /\ running[2].pc # "idle") =>
           running[1].dir # running[2].dir
    /\ \A j \in 1..2 :
           /\ running[j].data \in {<<>>, DataUrl(RequestOf(j))}
           /\ ~running[j].failed

-----------------------------------------------------------------------------
(* File classification as a function of (url, hint): getFileType of         *)
(* src/index.js, isPdfUrl / isPdf / isDocument of src/unnamed/part_004      *)

UrlPdfQuery    == <<"h","/","b",".","p","d","f","?","v","=","1">>
UrlPngQueryPdf == <<"h","/","a",".","p","n","g","?","s","=","b",".","p","d","f">>
UrlPngFragPdf  == <<"h","/","a",".","p","n","g","#",".","p","d","f">>
UrlUpperPdf    == <<"h","/","B",".","P","D","F">>
UrlXlsx        == <<"h","/","e",".","x","l","s","x">>
UrlCsv         == <<"h","/","e",".","c","s","v">>
UrlBak         == <<"h","/","b",".","p","d","f",".","b","a","k">>
UrlDir         == <<"h",".","i","o","/","f">>

ClassifyUrls == { UrlPng, UrlPdf, UrlDocx, UrlPlain, UrlPdfQuery, UrlPngQueryPdf,
                  UrlPngFragPdf, UrlUpperPdf, UrlXlsx, UrlCsv, UrlBak, UrlDir }

HintImage   == <<"i","m","a","g","e">>
HintPdf     == <<"P","D","F">>
HintUnknown == <<"b","i","n">>

ClassifyHints == { HintNone, HintDocx, HintPdfMime, HintImage, HintPdf, HintUnknown }

InitClassify ==
    /\ impl = "classify"
    /\ \E u \in ClassifyUrls : \E h \in ClassifyHints :
         job = [images_urls |-> [kind |-> "array", val |-> <<u>>],
                file_types |-> <<h>>, quantity |-> 1,
                color_mode |-> ModeColor, color_modes |-> <<>>,
                deviceName |-> "", printerName |-> ""]
    /\ printers = <<>>
    /\ libreOffice = FALSE
    /\ pc = "idle"
    /\ i = 0
    /\ q = 0
    /\ targetPrinter = ""
    /\ isConverted = FALSE
    /\ tempDir = "none"
    /\ fsFiles = {}
    /\ madeFiles = {}
    /\ window = "none"
    /\ errorBox = FALSE
    /\ queries = 0
    /\ work = <<>>
    /\ submissions = <<>>
    /\ progress = <<>>
    /\ err = NoError
    /\ url = <<>>
    /\ loaded = NoPage
    /\ tempFiles = <<>>
    /\ pdfImages = <<>>
    /\ pageNum = 0
    /\ response = ""
    /\ platform = "linux"
    /\ installed = IF libreOffice THEN {LIBRE_OFFICE_PATHS.linux} ELSE {}
    /\ replies = <<>>
    /\ checks = 0
    /\ pdfFlag = "none"
    /\ lastDevice = ""
    /\ host = NormalHost
    /\ renderer = <<>>
    /\ kinds = <<>>
    /\ clock = 0
    /\ tmpDirs = {}
    /\ tmpDisk = {}
    /\ running = <<>>
    /\ result = NoResult

\* One call of each classifier on file 0 of the job.
ClassifyFile ==
    /\ impl = "classify"
    /\ Len(kinds) < MaxCalls
    /\ kinds' = Append(kinds, [getFileType |-> getFileType(job, urls[1], 0),
                               isPdfUrl    |-> isPdfUrl(urls[1]),
                               isPdf       |-> isPdf(job, urls[1], 0),
                               isDocument  |-> isDocument(job, urls[1], 0)])
    /\ UNCHANGED <<impl, host, job, lastDevice, renderer, platform, installed, replies, checks, pdfFlag, printers, libreOffice, pc, i, q, targetPrinter,
                   isConverted, tempDir, fsFiles, madeFiles, window, errorBox,
                   queries, work, submissions, progress, err, url, loaded,
                   tempFiles, pdfImages, pageNum, response, clock, tmpDirs,
                   tmpDisk, running, result>>

NextClassify == ClassifyFile

SpecClassify == InitClassify /\ [][NextClassify]_vars

-----------------------------------------------------------------------------
(* Properties of the classifiers and of the downloads *)

\* The hint of the classified file, as the classifiers read it.
HintOfFile == ToLowerCase(job.file_types[1])

\* The URL up to its query string or fragment.
PathOf(u) ==
    LET marks == { k \in DOMAIN u : u[k] \in {"?", "#"} }
    IN  IF marks = {} THEN u
        ELSE SubSeq(u, 1, (CHOOSE k \in marks : \A k2 \in marks : k <= k2) - 1)

\* What follows the last dot of a string, in lower case; "" without a dot.
LastExt(s) ==
    LET dots == { k \in DOMAIN s : s[k] = "." }
    IN  IF dots = {} THEN <<>>
        ELSE ToLowerCase(SubSeq(s, (CHOOSE k \in dots : \A k2 \in dots : k2 <= k) + 1, Len(s)))

\* The extensions getFileType tests for.
ExtensionTable ==
    { <<"p","d","f">>, <<"x","l","s","x">>, <<"x","l","s">>, <<"d","o","c","x">>,
      <<"d","o","c">>, <<"c","s","v">>, <<"t","x","t">>, <<"p","n","g">>,
      <<"j","p","g">>, <<"j","p","e","g">>, <<"g","i","f">>, <<"w","e","b","p">>,
      <<"b","m","p">>, <<"s","v","g">> }

C17_Original ==
    \A k \in DOMAIN work :
        work[k].op \in {"download", "convert"} =>
            ~Includes(FileTypeHint(job, work[k].file), PdfExt)

\* C18 (as stated): with no hint, getFileType and isPdfUrl give for a URL
\* what they give for its path, the part before '?' and '#'.
C18_Original ==
    HintOfFile = <<>> =>
        \A k \in DOMAIN kinds :
            /\ kinds[k].getFileType = getFileType(job, PathOf(urls[1]), 0)
            /\ kinds[k].isPdfUrl = isPdfUrl(PathOf(urls[1]))

\* The URL ends in .pdf.
EndsInPdf(u) == Len(u) >= 4 /\ ToLowerCase(SubSeq(u, Len(u) - 3, Len(u))) = <<".","p","d","f">>

\* C19 (as stated): with a non-empty hint that does not contain "pdf", isPdf
\* of a URL ending in .pdf is true.
C19_Original ==
    (HintOfFile # <<>> /\ ~Includes(HintOfFile, PdfExt) /\ EndsInPdf(urls[1])) =>
        \A k \in DOMAIN kinds : kinds[k].isPdf

\* C19 amended: a non-empty hint decides alone, isPdf is true exactly when
\* the hint contains "pdf"; the URL is only looked at when the hint is empty.
C19_HintDecides ==
    \A k \in DOMAIN kinds :
        kinds[k].isPdf <=> IF HintOfFile # <<>> THEN Includes(HintOfFile, PdfExt)
                           ELSE kinds[k].isPdfUrl

\* h/b.pdf hinted as "image" was classified as not a PDF.
C19_Witness ==
    /\ impl = "classify"
    /\ Len(kinds) >= 1
    /\ urls[1] = UrlPdf /\ job.file_types[1] = HintImage
    /\ ~kinds[1].isPdf /\ kinds[1].isPdfUrl

\* C20 (as stated): a download that completed successfully ended on a 2xx
\* response.
C20_Original ==
    pc = "convert" => response \in {"200", "204"}

-----------------------------------------------------------------------------
(* Print options and colour of printJob of src/unnamed/part_004 *)

\* Jobs whose colour fields vary, on a host with a default printer.
ColorFiles == { [url |-> UrlPng, hint |-> HintNone],
                [url |-> UrlPdf, hint |-> HintNone],
                [url |-> UrlDocx, hint |-> HintNone] }

ColorModeValues == { ModeNone, ModeColor, ModeColorUpper, ModeBlack }

ColorModeEntries == { ModeNone, ModeColorUpper, ModeBlack }

ColorJobs ==
    { [images_urls |-> [kind |-> "array", val |-> [k \in DOMAIN fl |-> fl[k].url]],
       file_types  |-> [k \in DOMAIN fl |-> fl[k].hint],
       quantity    |-> 1,
       color_mode  |-> cm,
       color_modes |-> cms,
       deviceName  |-> "",
       printerName |-> ""] :
      fl \in UNION { [1..n -> ColorFiles] : n \in 1..MaxFiles },
      cm \in ColorModeValues,
      cms \in UNION { [1..n -> ColorModeEntries] : n \in 0..MaxFiles } }

InitColor ==
    /\ impl = "part_004"
    /\ job \in ColorJobs
    /\ printers = << [name |-> "HP", isDefault |-> FALSE], [name |-> "Canon", isDefault |-> TRUE] >>
    /\ libreOffice = TRUE
    /\ pc = "idle"
    /\ i = 0
    /\ q = 0
    /\ targetPrinter = ""
    /\ isConverted = FALSE
    /\ tempDir = "none"
    /\ fsFiles = {}
    /\ madeFiles = {}
    /\ window = "none"
    /\ errorBox = FALSE
    /\ queries = 0
    /\ work = <<>>
    /\ submissions = <<>>
    /\ progress = <<>>
    /\ err = NoError
    /\ url = <<>>
    /\ loaded = NoPage
    /\ tempFiles = <<>>
    /\ pdfImages = <<>>
    /\ pageNum = 0
    /\ response = ""
    /\ platform = "linux"
    /\ installed = IF libreOffice THEN {LIBRE_OFFICE_PATHS.linux} ELSE {}
    /\ replies = <<>>
    /\ checks = 0
    /\ pdfFlag = "none"
    /\ lastDevice = ""
    /\ host = NormalHost
    /\ renderer = <<>>
    /\ kinds = <<>>
    /\ clock = 0
    /\ tmpDirs = {}
    /\ tmpDisk = {}
    /\ running = <<>>
    /\ result = NoResult

SpecColor == InitColor /\ [][Next]_vars

\* A4 is 210 mm x 297 mm; a page size names it or gives it in microns.
IsA4(size) ==
    \/ size.name = "A4"
    \/ size.name = "custom" /\ size.width = 210 * 1000 /\ size.height = 297 * 1000

\* The request { images_urls: [a.png, b.pdf], quantity: 1, color_mode: "color" }
\* on a host that has a printer.
ScenarioTwoFiles ==
    /\ job.images_urls.kind = "array" /\ urls = <<UrlPng, UrlPdf>>
    /\ job.file_types = <<HintNone, HintNone>>
    /\ job.quantity = 1
    /\ job.color_mode = ModeColor /\ job.color_modes = <<>>
    /\ RequestedDevice(job) = ""
    /\ Len(printers) > 0

\* C21: every print submission of printJob (part_004) is silent, prints
\* background graphics, asks for one copy, zero margins and A4, and names
\* the device resolved for the job; the request [a.png, b.pdf] with
\* quantity 1 and color_mode "color" ends in success exactly when no step
\* failed, and then it has made exactly two submissions, a.png first and
\* b.pdf second, both in colour.
C21_PrintOptions ==
    /\ \A k \in DOMAIN submissions :
         /\ submissions[k].silent
         /\ submissions[k].printBackground
         /\ submissions[k].copies = 1
         /\ submissions[k].margins = "none"
         /\ IsA4(submissions[k].pageSize)
         /\ submissions[k].deviceName = targetPrinter
         /\ targetPrinter = getTargetPrinter(printers, RequestedDevice(job)).name
         /\ targetPrinter # ""
    /\ (ScenarioTwoFiles /\ pc = "done") =>
         /\ result.success <=> ~err.thrown
         /\ result.success =>
              /\ Len(submissions) = 2
              /\ SourceOf(submissions[1].page.url) = UrlPng
              /\ SourceOf(submissions[2].page.url) = UrlPdf
              /\ submissions[1].color /\ submissions[2].color

C21_Witness ==
    /\ ScenarioTwoFiles
    /\ pc = "done" /\ result.success
    /\ Len(submissions) = 2
    /\ submissions[1].pageSize.name = "A4"
    /\ submissions[2].pageSize.name = "custom"
    /\ \E k \in DOMAIN printers : printers[k].isDefault /\ printers[k].name = targetPrinter

\* The mode the request asks for file f: the per-file entry when the list
\* supplies a value for f, otherwise the global color_mode, otherwise "color".
EffectiveMode(j, f) ==
    IF f + 1 \in DOMAIN j.color_modes /\ j.color_modes[f + 1] # ModeNone
    THEN j.color_modes[f + 1]
    ELSE IF j.color_mode # ModeNone THEN j.color_mode
    ELSE ModeColor

\* C22 (as stated): the submission for file f has color = true exactly when
\* the effective mode of f equals "color" case-insensitively; an empty or
\* null per-file entry does not override a global color_mode of "black".
\* (Submission k of printJob of part_004 is for file k - 1.)
C22_Original ==
    \A k \in DOMAIN submissions :
        submissions[k].color <=> ToLowerCase(EffectiveMode(job, k - 1)) = ModeColor

-----------------------------------------------------------------------------
(* GET_SUPPORTED_FILE_TYPES and GET_CAPABILITIES of src/unnamed/part_004 *)

\* Values of process.platform; "freebsd" has no entry in LIBRE_OFFICE_PATHS.
Platforms == {"win32", "darwin", "linux", "freebsd"}

ConverterPaths == { LIBRE_OFFICE_PATHS[p] : p \in DOMAIN LIBRE_OFFICE_PATHS }

\* Mutant: the converter of any platform counts.
isLibreOfficeInstalled_AnyPath == installed # {}

\* isLibreOfficeInstalled(): no path for the platform gives false, else
\* fs.existsSync(libreOfficePath).
isLibreOfficeInstalled ==
    IF platform \notin DOMAIN LIBRE_OFFICE_PATHS THEN FALSE
    ELSE LIBRE_OFFICE_PATHS[platform] \in installed

baseTypes == <<"image/jpeg", "image/jpg", "image/png", "image/gif", "image/webp",
               "application/pdf", "pdf">>

documentTypes ==
    <<"application/vnd.openxmlformats-officedocument.wordprocessingml.document",
      "application/msword",
      "application/vnd.openxmlformats-officedocument.spreadsheetml.sheet",
      "application/vnd.ms-excel",
      "application/vnd.openxmlformats-officedocument.presentationml.presentation",
      "application/vnd.ms-powerpoint",
      "application/vnd.oasis.opendocument.text",
      "application/vnd.oasis.opendocument.spreadsheet",
      "application/vnd.oasis.opendocument.presentation",
      "doc", "docx", "xls", "xlsx", "ppt", "pptx", "odt", "ods", "odp">>

baseExtensions == <<"jpg", "jpeg", "png", "gif", "webp", "pdf">>

documentExtensions == <<"doc", "docx", "xls", "xlsx", "ppt", "pptx", "odt", "ods", "odp">>

InitCaps ==
    /\ impl = "caps"
    /\ job = [images_urls |-> [kind |-> "missing", val |-> <<>>],
              file_types |-> <<>>, quantity |-> 1,
              color_mode |-> ModeColor, color_modes |-> <<>>,
              deviceName |-> "", printerName |-> ""]
    /\ printers = <<>>
    /\ libreOffice = FALSE
    /\ pc = "idle"
    /\ i = 0
    /\ q = 0
    /\ targetPrinter = ""
    /\ isConverted = FALSE
    /\ tempDir = "none"
    /\ fsFiles = {}
    /\ madeFiles = {}
    /\ window = "none"
    /\ errorBox = FALSE
    /\ queries = 0
    /\ work = <<>>
    /\ submissions = <<>>
    /\ progress = <<>>
    /\ err = NoError
    /\ url = <<>>
    /\ loaded = NoPage
    /\ tempFiles = <<>>
    /\ pdfImages = <<>>
    /\ pageNum = 0
    /\ response = ""
    /\ platform \in Platforms
    /\ installed \in SUBSET ConverterPaths
    /\ replies = <<>>
    /\ checks = 0
    /\ pdfFlag = "none"
    /\ lastDevice = ""
    /\ host = NormalHost
    /\ renderer = <<>>
    /\ kinds = <<>>
    /\ clock = 0
    /\ tmpDirs = {}
    /\ tmpDisk = {}
    /\ running = <<>>
    /\ result = NoResult

\* Every variable the two handlers and the installer leave alone.
capsRest ==
    <<impl, job, printers, libreOffice, pc, i, q, targetPrinter, isConverted,
      tempDir, fsFiles, madeFiles, window, errorBox, queries, work,
      submissions, progress, err, url, loaded, tempFiles, pdfImages, pageNum,
      response, kinds, clock, tmpDirs, tmpDisk, running, platform, checks,
      pdfFlag, lastDevice, renderer, host, result>>

\* ipcMain.handle("GET_SUPPORTED_FILE_TYPES", ...)
GetSupportedFileTypes ==
    /\ impl = "caps"
    /\ Len(replies) < MaxCalls
    /\ replies' = Append(replies,
         [channel |-> "GET_SUPPORTED_FILE_TYPES",
          types |-> IF isLibreOfficeInstalled THEN baseTypes \o documentTypes
                    ELSE baseTypes])
    /\ UNCHANGED <<installed, capsRest>>

\* ipcMain.handle("GET_CAPABILITIES", ...)
GetCapabilities ==
    /\ impl = "caps"
    /\ Len(replies) < MaxCalls
    /\ replies' = Append(replies,
         [channel |-> "GET_CAPABILITIES",
          version |-> "1.0.0",
          supportsImages |-> TRUE,
          supportsPDF |-> TRUE,
          supportsDocuments |-> isLibreOfficeInstalled,
          libreOfficeInstalled |-> isLibreOfficeInstalled,
          supportedExtensions |-> IF isLibreOfficeInstalled
                                  THEN baseExtensions \o documentExtensions
                                  ELSE baseExtensions])
    /\ UNCHANGED <<installed, capsRest>>

\* Between two calls a converter is installed or removed.
ChangeInstallation ==
    /\ impl = "caps"
    /\ \E p \in ConverterPaths :
         installed' = IF p \in installed THEN installed \ {p} ELSE installed \cup {p}
    /\ UNCHANGED <<replies, capsRest>>

NextCaps ==
    \/ GetSupportedFileTypes
    \/ GetCapabilities
    \/ ChangeInstallation

SpecCaps == InitCaps /\ [][NextCaps]_vars

\* The converter executable exists at the fixed path of the platform.
ConverterPresent ==
    \/ platform = "win32"  /\ LIBRE_OFFICE_PATHS.win32 \in installed
    \/ platform = "darwin" /\ LIBRE_OFFICE_PATHS.darwin \in installed
    \/ platform = "linux"  /\ LIBRE_OFFICE_PATHS.linux \in installed

\* An office-document extension or MIME type.
IsOfficeType(t) ==
    \E k \in DOMAIN documentTypes : documentTypes[k] = t

ListsOfficeTypes(list) == \E k \in DOMAIN list : IsOfficeType(list[k])

\* C23: a GET_CAPABILITIES reply has supportsDocuments = true exactly when
\* the converter executable exists at the platform's fixed path at the time
\* of the call, its supportedExtensions contain office-document types
\* exactly when supportsDocuments is true, and supportsImages and
\* supportsPDF are true; a GET_SUPPORTED_FILE_TYPES reply contains
\* office-document types exactly when the converter exists at that time.
C23_Capabilities ==
    [][ replies' # replies =>
          LET r == replies'[Len(replies')]
          IN  IF r.channel = "GET_CAPABILITIES"
              THEN /\ r.supportsDocuments <=> ConverterPresent
                   /\ ListsOfficeTypes(r.supportedExtensions) <=> r.supportsDocuments
                   /\ r.supportsImages /\ r.supportsPDF
              ELSE ListsOfficeTypes(r.types) <=> ConverterPresent ]_vars

C23_Witness ==
    /\ Len(replies) = 2
    /\ replies[1].channel = "GET_CAPABILITIES" /\ ~replies[1].supportsDocuments
    /\ replies[2].channel = "GET_CAPABILITIES" /\ replies[2].supportsDocuments
    /\ Cardinality(installed) = 2

-----------------------------------------------------------------------------
(* PRINT_JOB handler, captureDocumentAsImages and printJob of src/preload.js *)
(* (the revision that prints documents as captured page images)              *)

\* isDocument of src/preload.js: every type but "image" is captured.
isCapturedType(j, u, index) ==
    getFileType(j, u, index) \in {"pdf", "excel", "word", "csv", "text"}

\* doc_<Date.now()>.png in the temp directory, for file i of repetition q.
CapturePng == [pdf |-> urls[i + 1], q |-> q, index |-> i, page |-> 1]

\* What printImage loads: the captured image, or the image URL itself.
PlUnit == IF pdfImages # <<>> THEN [kind |-> "page", url |-> pdfImages[pageNum]]
          ELSE [kind |-> "image", url |-> url]

InitPreload ==
    /\ impl = "preload"
    /\ job \in IndexJobs
    /\ printers \in PrinterLists
    /\ libreOffice = FALSE
    /\ pc = "idle"
    /\ i = 0
    /\ q = 0
    /\ targetPrinter = ""
    /\ isConverted = FALSE
    /\ tempDir = "none"
    /\ fsFiles = {}
    /\ madeFiles = {}
    /\ window = "none"
    /\ errorBox = FALSE
    /\ queries = 0
    /\ work = <<>>
    /\ submissions = <<>>
    /\ progress = <<>>
    /\ err = NoError
    /\ url = <<>>
    /\ loaded = NoPage
    /\ tempFiles = <<>>
    /\ pdfImages = <<>>
    /\ pageNum = 0
    /\ response = ""
    /\ platform = "linux"
    /\ installed = IF libreOffice THEN {LIBRE_OFFICE_PATHS.linux} ELSE {}
    /\ replies = <<>>
    /\ checks = 0
    /\ pdfFlag = "none"
    /\ lastDevice = ""
    /\ host = NormalHost
    /\ renderer = <<>>
    /\ kinds = <<>>
    /\ clock = 0
    /\ tmpDirs = {}
    /\ tmpDisk = {}
    /\ running = <<>>
    /\ result = NoResult

PlValidateInput ==
    /\ impl = "preload" /\ pc = "idle"
    /\ IF InvalidInput(job)
       THEN /\ err' = Error(MsgInput)
            /\ pc' = "rejected"
       ELSE /\ err' = err
            /\ pc' = "setup"
    /\ UNCHANGED <<impl, host, job, lastDevice, renderer, printers, libreOffice, i, q, targetPrinter,
                   isConverted, tempDir, fsFiles, madeFiles, window,
                   errorBox, queries, work, submissions, progress, url,
                   loaded, tempFiles, pdfImages, pageNum, response, kinds,
                   clock, tmpDirs, tmpDisk, running, platform, installed,
                   replies, checks, pdfFlag, result>>

PlCreateWindow ==
    /\ impl = "preload" /\ pc = "setup"
    /\ window' = "open"
    /\ pc' = "resolvePrinter"
    /\ UNCHANGED <<impl, host, job, lastDevice, renderer, printers, libreOffice, i, q, targetPrinter,
                   isConverted, tempDir, fsFiles, madeFiles, errorBox,
                   queries, work, submissions, progress, err, url, loaded,
                   tempFiles, pdfImages, pageNum, response, kinds, clock,
                   tmpDirs, tmpDisk, running, platform, installed, replies,
                   checks, pdfFlag, result>>

PlResolvePrinter ==
    /\ impl = "preload" /\ pc = "resolvePrinter"
    /\ queries' = queries + 1
    /\ LET l == getPrintersList(TRUE, host.enumeration, printers)
           r == IF l.error.thrown THEN [error |-> l.error, name |-> ""]
                ELSE getTargetPrinter(l.value, RequestedDevice(job))
       IN  IF r.error.thrown
           THEN /\ err' = r.error
                /\ targetPrinter' = targetPrinter
                /\ pc' = "catch"
           ELSE /\ err' = err
                /\ targetPrinter' = r.name
                /\ pc' = "file"
    /\ i' = 0
    /\ q' = 0
    /\ UNCHANGED <<impl, host, job, lastDevice, renderer, printers, libreOffice, isConverted, tempDir,
                   fsFiles, madeFiles, window, errorBox, work, submissions,
                   progress, url, loaded, tempFiles, pdfImages, pageNum,
                   response, kinds, clock, tmpDirs, tmpDisk, running,
                   platform, installed, replies, checks, pdfFlag, result>>

\* Loop body head: documents are captured first, images are printed directly.
PlStartFile ==
    /\ impl = "preload" /\ pc = "file"
    /\ url' = urls[i + 1]
    /\ pdfImages' = <<>>
    /\ pageNum' = 0
    /\ pc' = IF isCapturedType(job, urls[i + 1], i) THEN "capture" ELSE "load"
    /\ UNCHANGED <<impl, host, job, lastDevice, renderer, printers, libreOffice, i, q, targetPrinter,
                   isConverted, tempDir, fsFiles, madeFiles, window,
                   errorBox, queries, work, submissions, progress, err,
                   loaded, tempFiles, response, kinds, clock, tmpDirs,
                   tmpDisk, running, platform, installed, replies, checks,
                   pdfFlag, result>>

\* const capturedImages = await captureDocumentAsImages(url, fileType);
\* tempFiles.push(...capturedImages); an empty list skips the file (continue).
\* The catch of captureDocumentAsImages logs the error and returns [].
PlCapture ==
    /\ impl = "preload" /\ pc = "capture"
    /\ \E outcome \in {"ok", "loadFailed", "captureFailed", "never"} :
         IF outcome = "ok"
         THEN /\ work' = Append(work, [op |-> "capture", file |-> i])
              /\ fsFiles' = fsFiles \cup {CapturePng}
              /\ madeFiles' = madeFiles \cup {CapturePng}
              /\ tempFiles' = Append(tempFiles, CapturePng)
              /\ pdfImages' = <<CapturePng>>
              /\ pageNum' = 1
              /\ pc' = "load"
              /\ UNCHANGED <<i, q>>
         ELSE IF outcome = "never"
         THEN /\ work' = Append(work, [op |-> "capture", file |-> i])
              /\ pc' = "blocked"
              /\ UNCHANGED <<fsFiles, madeFiles, tempFiles, pdfImages, pageNum, i, q>>
         ELSE /\ work' = work \o <<[op |-> "capture", file |-> i],
                                   [op |-> "captureFailed", file |-> i]>>
              /\ i' = IxAdvance.i
              /\ q' = IxAdvance.q
              /\ pc' = IF IxAdvance.more THEN "file" ELSE "finish"
              /\ UNCHANGED <<fsFiles, madeFiles, tempFiles, pdfImages, pageNum>>
    /\ UNCHANGED <<impl, host, job, lastDevice, renderer, printers, libreOffice, targetPrinter,
                   isConverted, tempDir, window, errorBox, queries,
                   submissions, progress, err, url, loaded, response, kinds,
                   clock, tmpDirs, tmpDisk, running, platform, installed,
                   replies, checks, pdfFlag, result>>

\* printImage: loadURL of the image HTML, race with the 15 s load timer.
PlLoadPage ==
    /\ impl = "preload" /\ pc = "load"
    /\ work' = Append(work, [op |-> "load", file |-> i])
    /\ \E outcome \in {"ok", "failed", "timeout", "never"} :
         IF outcome = "ok"
         THEN /\ loaded' = PlUnit
              /\ err' = err
              /\ pc' = "wait"
         ELSE IF outcome = "never"
         THEN /\ loaded' = loaded
              /\ err' = err
              /\ pc' = "blocked"
         ELSE /\ loaded' = IF outcome = "timeout" THEN PlUnit ELSE loaded
              /\ err' = Error(IF outcome = "timeout" THEN MsgLoadTimedOut ELSE MsgLoadFailed)
              /\ pc' = "catch"
    /\ UNCHANGED <<impl, host, job, lastDevice, renderer, printers, libreOffice, i, q, targetPrinter,
                   isConverted, tempDir, fsFiles, madeFiles, window,
                   errorBox, queries, submissions, progress, url, tempFiles,
                   pdfImages, pageNum, response, kinds, clock, tmpDirs,
                   tmpDisk, running, platform, installed, replies, checks,
                   pdfFlag, result>>

\* printImage: the image-load wait (no timer) and the 300 ms delay.
PlWaitImages ==
    /\ impl = "preload" /\ pc = "wait"
    /\ \E outcome \in {"rendered", "never"} :
         pc' = IF outcome = "rendered" THEN "submit" ELSE "blocked"
    /\ UNCHANGED <<impl, host, job, lastDevice, renderer, printers, libreOffice, i, q, targetPrinter,
                   isConverted, tempDir, fsFiles, madeFiles, window,
                   errorBox, queries, work, submissions, progress, err, url,
                   loaded, tempFiles, pdfImages, pageNum, response, kinds,
                   clock, tmpDirs, tmpDisk, running, platform, installed,
                   replies, checks, pdfFlag, result>>

PlSubmitPrint ==
    /\ impl = "preload" /\ pc = "submit"
    /\ submissions' = Append(submissions, PrintCall(loaded, 1, targetPrinter, isColor(job)))
    /\ pc' = "printing"
    /\ UNCHANGED <<impl, host, job, lastDevice, renderer, printers, libreOffice, i, q, targetPrinter,
                   isConverted, tempDir, fsFiles, madeFiles, window,
                   errorBox, queries, work, progress, err, url, loaded,
                   tempFiles, pdfImages, pageNum, response, kinds, clock,
                   tmpDirs, tmpDisk, running, platform, installed, replies,
                   checks, pdfFlag, result>>

PlPrintCallback ==
    /\ impl = "preload" /\ pc = "printing"
    /\ \/ /\ i' = IxAdvance.i
          /\ q' = IxAdvance.q
          /\ pc' = IF IxAdvance.more THEN "file" ELSE "finish"
          /\ err' = err
       \/ \E reason \in PrintReasons :
          /\ err' = PrintError(reason)
          /\ pc' = "catch"
          /\ UNCHANGED <<i, q>>
       \/ /\ pc' = "blocked"
          /\ UNCHANGED <<i, q, err>>
    /\ UNCHANGED <<impl, host, job, lastDevice, renderer, printers, libreOffice, targetPrinter,
                   isConverted, tempDir, fsFiles, madeFiles, window,
                   errorBox, queries, work, submissions, progress, url,
                   loaded, tempFiles, pdfImages, pageNum, response, kinds,
                   clock, tmpDirs, tmpDisk, running, platform, installed,
                   replies, checks, pdfFlag, result>>

\* printWindow.close(); every tracked temp file is unlinked.
PlFinishJob ==
    /\ impl = "preload" /\ pc = "finish"
    /\ window' = "closed"
    /\ fsFiles' = fsFiles \ { tempFiles[k] : k \in DOMAIN tempFiles }
    /\ pc' = "resolved"
    /\ UNCHANGED <<impl, host, job, lastDevice, renderer, printers, libreOffice, i, q, targetPrinter,
                   isConverted, tempDir, madeFiles, errorBox, queries, work,
                   submissions, progress, err, url, loaded, tempFiles,
                   pdfImages, pageNum, response, kinds, clock, tmpDirs,
                   tmpDisk, running, platform, installed, replies, checks,
                   pdfFlag, result>>

PlCatchJobError ==
    /\ impl = "preload" /\ pc = "catch"
    /\ window' = "closed"
    /\ fsFiles' = fsFiles \ { tempFiles[k] : k \in DOMAIN tempFiles }
    /\ pc' = "rejected"
    /\ UNCHANGED <<impl, host, job, lastDevice, renderer, printers, libreOffice, i, q, targetPrinter,
                   isConverted, tempDir, madeFiles, errorBox, queries, work,
                   submissions, progress, err, url, loaded, tempFiles,
                   pdfImages, pageNum, response, kinds, clock, tmpDirs,
                   tmpDisk, running, platform, installed, replies, checks,
                   pdfFlag, result>>

PlHandlerReturn ==
    /\ impl = "preload" /\ pc = "resolved"
    /\ result' = [settled |-> "returned", success |-> TRUE, text |-> MsgJobCompleted]
    /\ pc' = "done"
    /\ UNCHANGED <<impl, host, job, lastDevice, renderer, printers, libreOffice, i, q, targetPrinter,
                   isConverted, tempDir, fsFiles, madeFiles, window,
                   errorBox, queries, work, submissions, progress, err, url,
                   loaded, tempFiles, pdfImages, pageNum, response, kinds,
                   clock, tmpDirs, tmpDisk, running, platform, installed,
                   replies, checks, pdfFlag>>

PlHandlerCatch ==
    /\ impl = "preload" /\ pc = "rejected"
    /\ result' = [settled |-> "returned", success |-> FALSE, text |-> err.msg]
    /\ pc' = "done"
    /\ UNCHANGED <<impl, host, job, lastDevice, renderer, printers, libreOffice, i, q, targetPrinter,
                   isConverted, tempDir, fsFiles, madeFiles, window,
                   errorBox, queries, work, submissions, progress, err, url,
                   loaded, tempFiles, pdfImages, pageNum, response, kinds,
                   clock, tmpDirs, tmpDisk, running, platform, installed,
                   replies, checks, pdfFlag>>

NextPreload ==
    \/ PlValidateInput
    \/ PlCreateWindow
    \/ PlResolvePrinter
    \/ PlStartFile
    \/ PlCapture
    \/ PlLoadPage
    \/ PlWaitImages
    \/ PlSubmitPrint
    \/ PlPrintCallback
    \/ PlFinishJob
    \/ PlCatchJobError
    \/ PlHandlerReturn
    \/ PlHandlerCatch

SpecPreload == InitPreload /\ [][NextPreload]_vars

\* C24 (as stated): in printJob of src/preload.js a document whose capture
\* fails (load error or capturePage error) aborts the whole job with
\* success: false; the file is never skipped while the job goes on and
\* reports success.
C24_Original ==
    (/\ impl = "preload" /\ pc = "done"
     /\ \E k \in DOMAIN work : work[k].op = "captureFailed") => ~result.success

-----------------------------------------------------------------------------
(* Render failures of printJob of src/index.js *)

\* The work-log entries of a page load that ran into the 10 s ceiling and of
\* a PDF render that reported an error or exceeded its attempt budget.
RenderDidNotComplete(op) == op \in {"loadTimedOut", "renderFailed"}

\* C25 (as stated): in printJob of src/index.js a PDF whose render reports an
\* error or exceeds the attempt budget, and a page whose load exceeds the
\* 10 s ceiling, each end the job with an error; no print submission is made
\* for a file whose render did not complete.
C25_Original ==
    impl = "index" =>
      /\ (pc = "done" /\ \E k \in DOMAIN work : RenderDidNotComplete(work[k].op))
            => ~result.success
      /\ (pc = "printing" /\ work # <<>>) => ~RenderDidNotComplete(work[Len(work)].op)

-----------------------------------------------------------------------------
(* Temp files and copies of printImages of src/unnamed/part_002 *)

\* C26 (as stated): every page PNG written by pdfToImages during a job is
\* deleted by the time the job settles, on success and on failure alike.
C26_Original ==
    (impl = "part_002" /\ pc = "done") => fsFiles = {}

\* The submissions that print page n of file f, and those that print the
\* image behind URL u.
PageSubmissions(f, n) ==
    { k \in DOMAIN submissions :
        /\ submissions[k].page.kind = "page"
        /\ submissions[k].page.url.index = f
        /\ submissions[k].page.url.page = n }

ImageSubmissions(u) ==
    { k \in DOMAIN submissions :
        submissions[k].page.kind = "image" /\ submissions[k].page.url = u }

\* The image files of the request that have URL u.
ImageFilesWith(u) ==
    { k \in DOMAIN urls : urls[k] = u /\ ~isPdf(job, urls[k], k - 1) }

\* C27: printImages with no PDF in the job makes at most one submission, of
\* all images in request order with copies = qty, and exactly one when it
\* succeeds; with a PDF in the job every submission has copies = 1, and when
\* the job succeeds each image file has been submitted exactly qty times and
\* each page of each PDF exactly qty times.
C27_Copies ==
    (impl = "part_002" /\ job.images_urls.kind = "array") =>
      IF allImages
      THEN /\ Len(submissions) <= 1
           /\ \A k \in DOMAIN submissions :
                /\ submissions[k].page.kind = "images"
                /\ submissions[k].page.url = urls
                /\ submissions[k].copies = qty
           /\ (pc = "done" /\ result.success) => Len(submissions) = 1
      ELSE /\ \A k \in DOMAIN submissions : submissions[k].copies = 1
           /\ (pc = "done" /\ result.success) =>
                \A k \in DOMAIN urls :
                   IF isPdf(job, urls[k], k - 1)
                   THEN \A n \in 1..numPages(urls[k]) :
                           Cardinality(PageSubmissions(k - 1, n)) = qty
                   ELSE Cardinality(ImageSubmissions(urls[k])) =
                           qty * Cardinality(ImageFilesWith(urls[k]))

C27_Witness ==
    /\ impl = "part_002"
    /\ pc = "done" /\ result.success
    /\ job.quantity = 3
    /\ Len(urls) = 2
    /\ isPdf(job, urls[1], 0) /\ ~isPdf(job, urls[2], 1)
    /\ Len(submissions) = 3 * (numPages(urls[1]) + 1)

-----------------------------------------------------------------------------
(* The PDF render wait of printJob of src/unnamed/part_004, check by check *)

PollUrls == { <<UrlPdf, UrlPng>>, <<UrlPng, UrlPdf>>, <<UrlDocx>> }

PollJobs ==
    { [images_urls |-> [kind |-> "array", val |-> u],
       file_types  |-> [k \in DOMAIN u |-> HintNone],
       quantity    |-> 1,
       color_mode  |-> ModeColor,
       color_modes |-> <<>>,
       deviceName  |-> "",
       printerName |-> ""] : u \in PollUrls }

InitPoll ==
    /\ impl = "part_004.poll"
    /\ job \in PollJobs
    /\ printers = << [name |-> "HP", isDefault |-> TRUE] >>
    /\ libreOffice = TRUE
    /\ pc = "idle"
    /\ i = 0
    /\ q = 0
    /\ targetPrinter = ""
    /\ isConverted = FALSE
    /\ tempDir = "none"
    /\ fsFiles = {}
    /\ madeFiles = {}
    /\ window = "none"
    /\ errorBox = FALSE
    /\ queries = 0
    /\ work = <<>>
    /\ submissions = <<>>
    /\ progress = <<>>
    /\ err = NoError
    /\ url = <<>>
    /\ loaded = NoPage
    /\ tempFiles = <<>>
    /\ pdfImages = <<>>
    /\ pageNum = 0
    /\ response = ""
    /\ platform = "linux"
    /\ installed = IF libreOffice THEN {LIBRE_OFFICE_PATHS.linux} ELSE {}
    /\ replies = <<>>
    /\ checks = 0
    /\ pdfFlag = "none"
    /\ lastDevice = ""
    /\ host = NormalHost
    /\ renderer = <<>>
    /\ kinds = <<>>
    /\ clock = 0
    /\ tmpDirs = {}
    /\ tmpDisk = {}
    /\ running = <<>>
    /\ result = NoResult

NextPoll ==
    \/ Next
    \/ PollCheck
    \/ PollTimer
    \/ RenderPdf

\* The runtime runs every continuation and fires every timer that is due.
SpecPoll == InitPoll /\ [][NextPoll]_vars /\ WF_vars(NextPoll)

InRenderWait == pc \in {"wait", "pollSleep"} /\ isPdfFile

\* C28: the PDF render wait polls every 200 ms and always terminates; a
\* check resolves exactly when it sees the render-complete flag, rejects
\* with the page's message when it sees the render-error flag, rejects with
\* the timeout error when it is a check after the 100th and sees neither
\* flag, and otherwise sleeps 200 ms; a rejection ends the job with
\* success: false and no print submission for that file.
C28_RenderWait ==
    /\ [](InRenderWait =>
            /\ checks <= MaxRenderChecks
            /\ clock = 200 * (IF pc = "wait" THEN checks ELSE checks - 1))
    /\ [][ (InRenderWait /\ checks' # checks) =>
             /\ checks' = checks + 1
             /\ pc' = "submit" <=> pdfFlag = "rendered"
             /\ pdfFlag = "error" => (pc' = "catch" /\ err' = Error(MsgPdfError))
             /\ (pdfFlag = "none" /\ checks' > 100) =>
                   (pc' = "catch" /\ err' = Error(MsgPdfRenderTimeout))
             /\ (pdfFlag = "none" /\ checks' <= 100) => pc' = "pollSleep" ]_vars
    /\ [](err.msg \in {MsgPdfError, MsgPdfRenderTimeout} =>
            /\ Len(submissions) = i
            /\ pc = "done" => ~result.success)
    /\ (InRenderWait ~> ~InRenderWait)
    /\ (err.msg \in {MsgPdfError, MsgPdfRenderTimeout} ~> pc = "done")

C28_Witness ==
    /\ impl = "part_004.poll"
    /\ pc = "done" /\ ~result.success
    /\ result.text = MsgPdfRenderTimeout
    /\ checks = 101 /\ clock = 20000
    /\ i = 1 /\ Len(submissions) = 1

-----------------------------------------------------------------------------
(* Order of the steps of printJob of src/unnamed/part_004 *)

\* Position of a step within the processing of one file.
StepRank(op) ==
    CASE op = "download" -> 1
      [] op = "convert"  -> 2
      [] op = "load"     -> 3
      [] op = "rendered" -> 4
      [] op = "settle"   -> 5
      [] op = "print"    -> 6
      [] op = "printed"  -> 7

\* C29: printJob of part_004 processes the files one at a time and in
\* order; the steps of a file occur in the order download, convert, page
\* load, render complete, settle delay, print submission, print callback;
\* a print submission comes after the render-complete signal and the settle
\* delay of the same file; the page load of a file after the first is not
\* started before the print callback of the file before it has reported
\* success; and the print window is open at every page load and submission.
C29_Sequential ==
    /\ \A k, l \in DOMAIN work :
         k < l => \/ work[k].file < work[l].file
                  \/ /\ work[k].file = work[l].file
                     /\ StepRank(work[k].op) < StepRank(work[l].op)
    /\ \A k \in DOMAIN work :
         /\ work[k].op = "print" =>
              /\ k > 2
              /\ work[k - 2] = [op |-> "rendered", file |-> work[k].file]
              /\ work[k - 1] = [op |-> "settle", file |-> work[k].file]
         /\ (work[k].op = "load" /\ work[k].file > 0) =>
              \E a \in 1..(k - 1) : work[a] = [op |-> "printed", file |-> work[k].file - 1]
    /\ Cardinality({ k \in DOMAIN work : work[k].op = "print" }) = Len(submissions)
    /\ pc \in {"wait", "pollSleep", "submit", "printing"} => window = "open"

C29_Witness ==
    /\ impl = "part_004"
    /\ pc = "done" /\ result.success
    /\ Len(urls) = 2 /\ isDocument(job, urls[1], 0) /\ ~isDocument(job, urls[2], 1)
    /\ Len(work) = 7 + 5



-----------------------------------------------------------------------------
(* A failed conversion in printJob of src/unnamed/part_004 *)

ConvertPrefix == <<"Failed", "to", "convert", "document:">>

\* The conversion of file i was the last step made and it threw.
ConversionFailed ==
    /\ impl = "part_004"
    /\ pc \in {"catch", "rejected", "done"}
    /\ work # <<>>
    /\ work[Len(work)].op = "convert"

\* C30: when convertToPDF rejects, because the converter process reported an
\* error or because the output PDF is absent, an 'error' progress event with
\* the file's index and a message prefixed "Failed to convert document:" has
\* been emitted, the job rejects with that same message, the file is neither
\* loaded, rendered nor submitted to the printer, and no later file is
\* processed.
C30_ConversionFailure ==
    ConversionFailed =>
        /\ work[Len(work)].file = i
        /\ err.thrown
        /\ Len(err.msg) > Len(ConvertPrefix)
        /\ SubSeq(err.msg, 1, Len(ConvertPrefix)) = ConvertPrefix
        /\ SubSeq(err.msg, Len(ConvertPrefix) + 1, Len(err.msg))
              \in {MsgConversionFailed, MsgOutputNotFound}
        /\ \E k \in DOMAIN progress :
              progress[k] = Event(i, "error", err.msg, urls[i + 1])
        /\ \A k \in DOMAIN progress : progress[k].fileIndex <= i
        /\ \A k \in DOMAIN work :
              /\ work[k].file <= i
              /\ work[k].file = i => work[k].op \in {"download", "convert"}
        /\ Len(submissions) = i
        /\ pc = "done" => /\ ~result.success
                          /\ result.text = err.msg

C30_Witness ==
    /\ ConversionFailed
    /\ pc = "done"
    /\ i = 1
    /\ Len(urls) = 2
    /\ Len(submissions) = 1
    /\ err.msg = MsgFailedToConvert(MsgOutputNotFound)

-----------------------------------------------------------------------------
(* The url field of the progress events of printJob of src/unnamed/part_004 *)

\* C31: every per-file progress event of file i carries the url the request
\* gave for that file, images_urls[i], also after a document was converted.
C31_Original ==
    impl = "part_004" =>
        \A k \in DOMAIN progress :
            progress[k].fileIndex >= 0 =>
                progress[k].url = urls[progress[k].fileIndex + 1]

-----------------------------------------------------------------------------
(* The print window of printImages of src/unnamed/part_002 *)

\* C32: the print window created for a job is closed by the time the job
\* settles, on every path.
C32_Original ==
    (impl = "part_002" /\ pc = "done") => window # "open"

-----------------------------------------------------------------------------
(* The job-level progress event of the PRINT_JOB handler of src/unnamed/part_004 *)

\* The number of URLs the request asks to print.
RequestedUrls(j) ==
    CASE j.images_urls.kind = "array"  -> Len(j.images_urls.val)
      [] j.images_urls.kind = "string" -> 1
      [] OTHER                         -> 0

JobLevelEvents == { k \in DOMAIN progress : progress[k].fileIndex = -1 }

\* Exactly one job-level event has been sent when the handler returns, none
\* before; it is the last event of the job and its status tells the result.
JobLevelEventSent ==
    /\ pc # "done" => JobLevelEvents = {}
    /\ pc = "done" =>
         /\ JobLevelEvents = {Len(progress)}
         /\ LET e == progress[Len(progress)]
            IN  /\ e.status = "completed" <=> result.success
                /\ e.status = "error" <=> ~result.success
                /\ ~result.success => e.message = result.text

\* C33 (as stated): the job-level event also carries totalFiles equal to the
\* number of requested URLs.
C33_Original ==
    impl = "part_004" =>
        /\ JobLevelEventSent
        /\ pc = "done" =>
             progress[Len(progress)].totalFiles = RequestedUrls(job)

-----------------------------------------------------------------------------
(* printJob of src/unnamed/part_004 called again and again on a host whose *)
(* printer list changes                                                    *)

PrinterUrls == { <<UrlPng>>, <<UrlPng, UrlPdf>>, <<UrlDocx>> }

PrinterJobs ==
    { [images_urls |-> [kind |-> "array", val |-> u],
       file_types  |-> [k \in DOMAIN u |-> HintNone],
       quantity    |-> 1,
       color_mode  |-> ModeColor,
       color_modes |-> <<>>,
       deviceName  |-> d,
       printerName |-> ""] : u \in PrinterUrls, d \in {"", "Canon"} }

InitPrinters ==
    /\ impl = "part_004.printers"
    /\ job \in PrinterJobs
    /\ printers \in PrinterLists
    /\ libreOffice = TRUE
    /\ pc = "idle"
    /\ i = 0
    /\ q = 0
    /\ targetPrinter = ""
    /\ isConverted = FALSE
    /\ tempDir = "none"
    /\ fsFiles = {}
    /\ madeFiles = {}
    /\ window = "none"
    /\ errorBox = FALSE
    /\ queries = 0
    /\ work = <<>>
    /\ submissions = <<>>
    /\ progress = <<>>
    /\ err = NoError
    /\ url = <<>>
    /\ loaded = NoPage
    /\ tempFiles = <<>>
    /\ pdfImages = <<>>
    /\ pageNum = 0
    /\ response = ""
    /\ platform = "linux"
    /\ installed = IF libreOffice THEN {LIBRE_OFFICE_PATHS.linux} ELSE {}
    /\ replies = <<>>
    /\ checks = 0
    /\ pdfFlag = "none"
    /\ lastDevice = ""
    /\ host = NormalHost
    /\ renderer = <<>>
    /\ kinds = <<>>
    /\ clock = 0
    /\ tmpDirs = {}
    /\ tmpDisk = {}
    /\ running = <<>>
    /\ result = NoResult

\* A printer is added to or removed from the host, or another printer is made
\* the default one, at any moment.
ChangePrinters ==
    /\ impl = "part_004.printers"
    /\ printers' \in PrinterLists \ {printers}
    /\ UNCHANGED <<impl, host, renderer, job, libreOffice, pc, i, q, targetPrinter,
                   isConverted, tempDir, fsFiles, madeFiles, window,
                   errorBox, queries, work, submissions, progress, err, url,
                   loaded, tempFiles, pdfImages, pageNum, response, kinds,
                   clock, tmpDirs, tmpDisk, running, platform, installed,
                   replies, checks, pdfFlag, lastDevice, result>>

\* The handler has returned; PRINT_JOB is invoked again. Every local of
\* printJob is a new one.
NextJob ==
    /\ impl = "part_004.printers" /\ pc = "done"
    /\ lastDevice' = targetPrinter
    /\ job' \in PrinterJobs
    /\ pc' = "idle"
    /\ i' = 0
    /\ targetPrinter' = ""
    /\ isConverted' = FALSE
    /\ tempDir' = "none"
    /\ fsFiles' = {}
    /\ madeFiles' = {}
    /\ window' = "none"
    /\ errorBox' = FALSE
    /\ queries' = 0
    /\ work' = <<>>
    /\ submissions' = <<>>
    /\ progress' = <<>>
    /\ err' = NoError
    /\ url' = <<>>
    /\ loaded' = NoPage
    /\ response' = ""
    /\ checks' = 0
    /\ pdfFlag' = "none"
    /\ clock' = 0
    /\ result' = NoResult
    /\ UNCHANGED <<impl, host, renderer, printers, libreOffice, q, tempFiles, pdfImages,
                   pageNum, kinds, tmpDirs, tmpDisk, running, platform,
                   installed, replies>>

NextPrinters == Next \/ ChangePrinters \/ NextJob

SpecPrinters == InitPrinters /\ [][NextPrinters]_vars


\* The job is past the resolution of its printer.
PrinterResolved ==
    pc \in {"file", "download", "convert", "load", "wait", "submit",
            "printing", "finish", "resolved", "blocked"}

\* C34: printJob queries the printer list exactly once per invocation that
\* gets as far as its first file, before any file is processed; the device it
\* resolves is computed from the list as it is at that moment, whatever the
\* call before had resolved; the device does not change until the handler
\* returns, and every print submission of the job carries it, even if the
\* printer list of the host changes while the job is running.
C34_PrinterQuery ==
    /\ [](impl = "part_004.printers" =>
            /\ queries <= 1
            /\ PrinterResolved => queries = 1
            /\ (work # <<>> \/ submissions # <<>>) => queries = 1
            /\ queries = 0 => targetPrinter = ""
            /\ \A k \in DOMAIN submissions :
                  submissions[k].deviceName = targetPrinter)
    /\ [][ (impl = "part_004.printers" /\ pc = "resolvePrinter" /\ pc' # pc) =>
             LET r == getTargetPrinter(printers, RequestedDevice(job))
             IN  /\ queries' = queries + 1
                 /\ work = <<>>
                 /\ IF r.error.thrown THEN pc' = "catch" /\ err' = r.error
                    ELSE targetPrinter' = r.name ]_vars
    /\ [][ (impl = "part_004.printers" /\ pc \notin {"resolvePrinter", "done"}) =>
             /\ targetPrinter' = targetPrinter
             /\ queries' = queries ]_vars

C34_Witness ==
    /\ impl = "part_004.printers"
    /\ pc = "done" /\ result.success
    /\ Len(submissions) = 2
    /\ \A k \in DOMAIN submissions : submissions[k].deviceName = targetPrinter
    /\ RequestedDevice(job) = ""
    /\ ~ \E k \in DOMAIN printers : printers[k].name = targetPrinter
    /\ lastDevice \notin {"", targetPrinter}

-----------------------------------------------------------------------------
(* hostego.print of src/unnamed/part_003 called twice, with the PRINT_JOB   *)
(* handler of src/unnamed/part_004 answering both calls                     *)

Calls == 1..2

\* The progress events the handler sends for a job, by file index and status:
\* for a request that printJob rejects at its input validation, for one image
\* that prints, and for one image whose print submission fails.
ScriptInvalid == << [fileIndex |-> -1, status |-> "error"] >>

ScriptPrinted ==
    << [fileIndex |-> 0, status |-> "downloading"],
       [fileIndex |-> 0, status |-> "rendering"],
       [fileIndex |-> 0, status |-> "printing"],
       [fileIndex |-> 0, status |-> "completed"],
       [fileIndex |-> -1, status |-> "completed"] >>

ScriptPrintFailed ==
    << [fileIndex |-> 0, status |-> "downloading"],
       [fileIndex |-> 0, status |-> "rendering"],
       [fileIndex |-> 0, status |-> "printing"],
       [fileIndex |-> -1, status |-> "error"] >>

Scripts == { ScriptInvalid, ScriptPrinted, ScriptPrintFailed }

\* A hostego.print call that was not made yet: whether options.onProgress is
\* a function, and the events its job is going to produce.
CallsToMake ==
    { [pc |-> "idle", jobId |-> 0, onProgress |-> b, script |-> sc, sent |-> 0] :
        b \in BOOLEAN, sc \in Scripts }

\* let printProgressCallbacks = new Map(); let printJobIdCounter = 0;
NewRenderer ==
    [counter |-> 0, callbacks |-> {}, listeners |-> {}, inbox |-> <<>>,
     calls |-> [c \in Calls |-> <<>>], returned |-> {}]

InitCallbacks ==
    /\ impl = "part_003"
    /\ job = [images_urls |-> [kind |-> "array", val |-> <<UrlPng>>],
              file_types |-> <<HintNone>>, quantity |-> 1,
              color_mode |-> ModeColor, color_modes |-> <<>>,
              deviceName |-> "", printerName |-> ""]
    /\ printers = << [name |-> "HP", isDefault |-> TRUE] >>
    /\ libreOffice = TRUE
    /\ pc = "idle"
    /\ i = 0
    /\ q = 0
    /\ targetPrinter = ""
    /\ isConverted = FALSE
    /\ tempDir = "none"
    /\ fsFiles = {}
    /\ madeFiles = {}
    /\ window = "none"
    /\ errorBox = FALSE
    /\ queries = 0
    /\ work = <<>>
    /\ submissions = <<>>
    /\ progress = <<>>
    /\ err = NoError
    /\ url = <<>>
    /\ loaded = NoPage
    /\ tempFiles = <<>>
    /\ pdfImages = <<>>
    /\ pageNum = 0
    /\ response = ""
    /\ platform = "linux"
    /\ installed = IF libreOffice THEN {LIBRE_OFFICE_PATHS.linux} ELSE {}
    /\ replies = <<>>
    /\ checks = 0
    /\ pdfFlag = "none"
    /\ lastDevice = ""
    /\ host = NormalHost
    /\ renderer = NewRenderer
    /\ kinds = <<>>
    /\ clock = 0
    /\ tmpDirs = {}
    /\ tmpDisk = {}
    /\ running \in [Calls -> CallsToMake]
    /\ result = NoResult

\* Mutant: the listener does not look at the job id of the event.
listenerMatches_AnyJob(progress_, jobId) == jobId \in renderer.callbacks

\* progress.jobId === jobId && printProgressCallbacks.has(jobId)
listenerMatches(progress_, jobId) ==
    progress_.jobId = jobId /\ jobId \in renderer.callbacks

\* print: (options) => { const jobId = ++printJobIdCounter; store the callback
\* and add the listener when onProgress is a function; invoke PRINT_JOB }
HostegoPrint(c) ==
    /\ impl = "part_003" /\ running[c].pc = "idle"
    /\ LET jobId == renderer.counter + 1
       IN  /\ renderer' = [renderer EXCEPT
                 !.counter = jobId,
                 !.callbacks = IF running[c].onProgress THEN @ \cup {jobId} ELSE @,
                 !.listeners = IF running[c].onProgress THEN @ \cup {jobId} ELSE @]
           /\ running' = [running EXCEPT ![c].pc = "invoked", ![c].jobId = jobId]
    /\ UNCHANGED <<impl, host, job, printers, libreOffice, pc, i, q, targetPrinter,
                   isConverted, tempDir, fsFiles, madeFiles, window,
                   errorBox, queries, work, submissions, progress, err, url,
                   loaded, tempFiles, pdfImages, pageNum, response, kinds,
                   clock, tmpDirs, tmpDisk, platform, installed, replies,
                   checks, pdfFlag, lastDevice, result>>

\* sendProgress of the handler: event.sender.send('PRINT_PROGRESS',
\* { jobId, ...progress }), with jobId = job._jobId.
HandlerSend(c) ==
    /\ impl = "part_003" /\ running[c].pc = "invoked"
    /\ running[c].sent < Len(running[c].script)
    /\ LET e == running[c].script[running[c].sent + 1]
           m == [kind |-> "progress", call |-> c, jobId |-> running[c].jobId,
                 fileIndex |-> e.fileIndex, status |-> e.status]
       IN  renderer' = [renderer EXCEPT !.inbox = Append(@, m)]
    /\ running' = [running EXCEPT ![c].sent = @ + 1]
    /\ UNCHANGED <<impl, host, job, printers, libreOffice, pc, i, q, targetPrinter,
                   isConverted, tempDir, fsFiles, madeFiles, window,
                   errorBox, queries, work, submissions, progress, err, url,
                   loaded, tempFiles, pdfImages, pageNum, response, kinds,
                   clock, tmpDirs, tmpDisk, platform, installed, replies,
                   checks, pdfFlag, lastDevice, result>>

\* The handler returns its result after the job-level event.
HandlerReply(c) ==
    /\ impl = "part_003" /\ running[c].pc = "invoked"
    /\ running[c].sent = Len(running[c].script)
    /\ LET m == [kind |-> "reply", call |-> c, jobId |-> running[c].jobId,
                 fileIndex |-> -1, status |-> ""]
       IN  renderer' = [renderer EXCEPT !.inbox = Append(@, m)]
    /\ running' = [running EXCEPT ![c].pc = "returned"]
    /\ UNCHANGED <<impl, host, job, printers, libreOffice, pc, i, q, targetPrinter,
                   isConverted, tempDir, fsFiles, madeFiles, window,
                   errorBox, queries, work, submissions, progress, err, url,
                   loaded, tempFiles, pdfImages, pageNum, response, kinds,
                   clock, tmpDirs, tmpDisk, platform, installed, replies,
                   checks, pdfFlag, lastDevice, result>>

\* The page takes the next message from main: a PRINT_PROGRESS message runs
\* every listener that is registered, a reply settles the promise of its call.
RendererReceive ==
    /\ impl = "part_003" /\ renderer.inbox # <<>>
    /\ LET m == Head(renderer.inbox)
           hit == IF m.kind = "progress"
                  THEN { id \in renderer.listeners : listenerMatches(m, id) }
                  ELSE {}
           gone == IF TerminalStatus(m.status) THEN hit ELSE {}
       IN  renderer' = [renderer EXCEPT
              !.inbox = Tail(@),
              !.calls = [id \in Calls |-> IF id \in hit THEN Append(@[id], m) ELSE @[id]],
              !.callbacks = @ \ gone,
              !.listeners = @ \ gone,
              !.returned = IF m.kind = "reply" THEN @ \cup {m.jobId} ELSE @]
    /\ UNCHANGED <<impl, host, job, printers, libreOffice, pc, i, q, targetPrinter,
                   isConverted, tempDir, fsFiles, madeFiles, window,
                   errorBox, queries, work, submissions, progress, err, url,
                   loaded, tempFiles, pdfImages, pageNum, response, kinds,
                   clock, tmpDirs, tmpDisk, running, platform, installed,
                   replies, checks, pdfFlag, lastDevice, result>>

NextCallbacks ==
    \/ \E c \in Calls : HostegoPrint(c)
    \/ \E c \in Calls : HandlerSend(c)
    \/ \E c \in Calls : HandlerReply(c)
    \/ RendererReceive

SpecCallbacks == InitCallbacks /\ [][NextCallbacks]_vars

\* C35: two hostego.print calls in flight get distinct job ids, and the
\* onProgress callback of a call is invoked only with events of its own job,
\* never with one of the other job, however the events of the two jobs
\* interleave.
C35_OwnEventsOnly ==
    impl = "part_003" =>
        /\ \A c, d \in Calls :
              (c # d /\ running[c].pc # "idle" /\ running[d].pc # "idle") =>
                  running[c].jobId # running[d].jobId
        /\ \A c \in Calls :
              running[c].pc # "idle" =>
                  LET got == renderer.calls[running[c].jobId]
                  IN  /\ \A k \in DOMAIN got : got[k].call = c
                      /\ ~running[c].onProgress => got = <<>>

C35_Witness ==
    /\ impl = "part_003"
    /\ \A c \in Calls : running[c].onProgress /\ running[c].pc = "invoked"
    /\ \A id \in Calls : renderer.calls[id] # <<>>
    /\ Len(renderer.inbox) >= 2
    /\ renderer.inbox[1].call # renderer.inbox[2].call

-----------------------------------------------------------------------------
(* The earlier printImages of src/unnamed/part_002 (lines 490-589), which    *)
(* waits for did-finish-load after it has awaited the page load              *)

MsgMapOfUndefined == <<"Cannot","read","properties","of","undefined","(reading","'map')">>

MsgMapNotAFunction == <<"images_urls.map","is","not","a","function">>

InitLegacy ==
    /\ impl = "part_002.legacy"
    /\ job \in Jobs
    /\ printers \in PrinterLists
    /\ libreOffice = FALSE
    /\ pc = "idle"
    /\ i = 0
    /\ q = 0
    /\ targetPrinter = ""
    /\ isConverted = FALSE
    /\ tempDir = "none"
    /\ fsFiles = {}
    /\ madeFiles = {}
    /\ window = "none"
    /\ errorBox = FALSE
    /\ queries = 0
    /\ work = <<>>
    /\ submissions = <<>>
    /\ progress = <<>>
    /\ err = NoError
    /\ url = <<>>
    /\ loaded = NoPage
    /\ tempFiles = <<>>
    /\ pdfImages = <<>>
    /\ pageNum = 0
    /\ response = ""
    /\ platform = "linux"
    /\ installed = IF libreOffice THEN {LIBRE_OFFICE_PATHS.linux} ELSE {}
    /\ replies = <<>>
    /\ checks = 0
    /\ pdfFlag = "none"
    /\ lastDevice = ""
    /\ host = NormalHost
    /\ renderer = <<>>
    /\ kinds = <<>>
    /\ clock = 0
    /\ tmpDirs = {}
    /\ tmpDisk = {}
    /\ running = <<>>
    /\ result = NoResult

\* new BrowserWindow({ show: false }); images_urls.map(...) builds the HTML and
\* throws a TypeError when images_urls is not an array.
LgCreateWindow ==
    /\ impl = "part_002.legacy" /\ pc = "idle"
    /\ window' = "open"
    /\ IF job.images_urls.kind = "array"
       THEN /\ err' = err
            /\ pc' = "load"
       ELSE /\ err' = Error(IF job.images_urls.kind = "missing"
                            THEN MsgMapOfUndefined ELSE MsgMapNotAFunction)
            /\ pc' = "rejected"
    /\ UNCHANGED <<impl, host, job, printers, libreOffice, i, q, targetPrinter,
                   isConverted, tempDir, fsFiles, madeFiles, errorBox,
                   queries, work, submissions, progress, url, loaded,
                   tempFiles, pdfImages, pageNum, response, kinds, clock,
                   tmpDirs, tmpDisk, running, platform, installed, replies,
                   checks, pdfFlag, lastDevice, renderer, result>>

\* await printWindow.loadURL(...): the promise resolves when the page has
\* finished loading, that is when did-finish-load has been emitted to the
\* listeners registered at that moment, of which printImages has none yet.
LgLoadURL ==
    /\ impl = "part_002.legacy" /\ pc = "load"
    /\ work' = Append(work, [op |-> "load", file |-> 0])
    /\ \E outcome \in {"ok", "failed"} :
         IF outcome = "ok"
         THEN /\ loaded' = [kind |-> "images", url |-> urls]
              /\ err' = err
              /\ pc' = "listen"
         ELSE /\ loaded' = loaded
              /\ err' = Error(MsgLoadFailed)
              /\ pc' = "rejected"
    /\ UNCHANGED <<impl, host, job, printers, libreOffice, i, q, targetPrinter,
                   isConverted, tempDir, fsFiles, madeFiles, window,
                   errorBox, queries, submissions, progress, url, tempFiles,
                   pdfImages, pageNum, response, kinds, clock, tmpDirs,
                   tmpDisk, running, platform, installed, replies, checks,
                   pdfFlag, lastDevice, renderer, result>>

\* return new Promise(...): webContents.on("did-finish-load", ...) is called
\* now, after the event of the page load; the promise is settled by the
\* listener only, and nothing loads the page again.
LgListen ==
    /\ impl = "part_002.legacy" /\ pc = "listen"
    /\ pc' = "waiting"
    /\ UNCHANGED <<impl, host, job, printers, libreOffice, i, q, targetPrinter,
                   isConverted, tempDir, fsFiles, madeFiles, window,
                   errorBox, queries, work, submissions, progress, err, url,
                   loaded, tempFiles, pdfImages, pageNum, response, kinds,
                   clock, tmpDirs, tmpDisk, running, platform, installed,
                   replies, checks, pdfFlag, lastDevice, renderer, result>>

\* ipcMain.on("PRINT_JOB"), catch (err): event.reply with { success: false }.
LgHandlerCatch ==
    /\ impl = "part_002.legacy" /\ pc = "rejected"
    /\ result' = [settled |-> "returned", success |-> FALSE, text |-> err.msg]
    /\ pc' = "done"
    /\ UNCHANGED <<impl, host, job, printers, libreOffice, i, q, targetPrinter,
                   isConverted, tempDir, fsFiles, madeFiles, window,
                   errorBox, queries, work, submissions, progress, err, url,
                   loaded, tempFiles, pdfImages, pageNum, response, kinds,
                   clock, tmpDirs, tmpDisk, running, platform, installed,
                   replies, checks, pdfFlag, lastDevice, renderer>>

NextLegacy ==
    \/ LgCreateWindow
    \/ LgLoadURL
    \/ LgListen
    \/ LgHandlerCatch

\* Every step of the handler that can be taken is taken.
SpecLegacy == InitLegacy /\ [][NextLegacy]_vars /\ WF_vars(NextLegacy)

\* C37 (as stated): the earlier printImages always settles, so the handler
\* always answers: the did-finish-load event it waits for is not missed.
C37_Original == <>(pc = "done")

-----------------------------------------------------------------------------
(* getPrintersList of src/unnamed/part_004 on hosts whose enumeration of     *)
(* printers fails, as seen by GET_PRINTERS and by a print job                *)

Hosts == [mainWindow : BOOLEAN, enumeration : {"ok", "throws", "none"}]

InitEnum ==
    /\ impl = "part_004.enum"
    /\ job \in PrinterJobs
    /\ printers \in PrinterLists
    /\ libreOffice = TRUE
    /\ pc = "idle"
    /\ i = 0
    /\ q = 0
    /\ targetPrinter = ""
    /\ isConverted = FALSE
    /\ tempDir = "none"
    /\ fsFiles = {}
    /\ madeFiles = {}
    /\ window = "none"
    /\ errorBox = FALSE
    /\ queries = 0
    /\ work = <<>>
    /\ submissions = <<>>
    /\ progress = <<>>
    /\ err = NoError
    /\ url = <<>>
    /\ loaded = NoPage
    /\ tempFiles = <<>>
    /\ pdfImages = <<>>
    /\ pageNum = 0
    /\ response = ""
    /\ platform = "linux"
    /\ installed = IF libreOffice THEN {LIBRE_OFFICE_PATHS.linux} ELSE {}
    /\ replies = <<>>
    /\ checks = 0
    /\ pdfFlag = "none"
    /\ lastDevice = ""
    /\ host \in Hosts
    /\ renderer = <<>>
    /\ kinds = <<>>
    /\ clock = 0
    /\ tmpDirs = {}
    /\ tmpDisk = {}
    /\ running = <<>>
    /\ result = NoResult

\* ipcMain.handle("GET_PRINTERS"): the list of the main window, [] without it.
GetPrinters ==
    /\ impl = "part_004.enum" /\ Len(replies) < MaxCalls
    /\ LET l == IF host.mainWindow
                THEN getPrintersList(TRUE, host.enumeration, printers)
                ELSE [error |-> NoError, value |-> <<>>]
       IN  replies' = Append(replies, [threw |-> l.error.thrown, value |-> l.value])
    /\ UNCHANGED <<impl, job, printers, libreOffice, pc, i, q, targetPrinter,
                   isConverted, tempDir, fsFiles, madeFiles, window,
                   errorBox, queries, work, submissions, progress, err, url,
                   loaded, tempFiles, pdfImages, pageNum, response, kinds,
                   clock, tmpDirs, tmpDisk, running, platform, installed,
                   checks, pdfFlag, lastDevice, renderer, host, result>>

NextEnum == Next \/ GetPrinters

SpecEnum == InitEnum /\ [][NextEnum]_vars

\* The job failed at its printer query.
FailedAtQuery == pc = "done" /\ queries = 1 /\ work = <<>> /\ ~result.success

\* C38: getPrintersList never throws; GET_PRINTERS answers with the empty
\* list when the main window is missing or the enumeration fails, and with
\* the list of the host otherwise; a print job whose enumeration fails ends
\* with the result of a job on a host without printers, "No printers found.".
C38_EnumerationFailure ==
    impl = "part_004.enum" =>
        /\ \A w \in BOOLEAN :
              ~getPrintersList(w, host.enumeration, printers).error.thrown
        /\ \A k \in DOMAIN replies :
              /\ ~replies[k].threw
              /\ replies[k].value =
                    IF host.mainWindow /\ host.enumeration = "ok" THEN printers ELSE <<>>
        /\ (pc = "done" /\ queries = 1 /\ (host.enumeration # "ok" \/ printers = <<>>)) =>
              /\ result = [settled |-> "returned", success |-> FALSE, text |-> MsgNoPrinters]
              /\ work = <<>> /\ submissions = <<>>
        /\ (pc = "done" /\ result.success) => host.enumeration = "ok"

C38_Witness ==
    /\ impl = "part_004.enum"
    /\ host.enumeration = "throws" /\ host.mainWindow
    /\ printers # <<>>
    /\ FailedAtQuery
    /\ result.text = MsgNoPrinters
    /\ Len(replies) = 1 /\ replies[1].value = <<>>

-----------------------------------------------------------------------------
(* The office-document types GET_SUPPORTED_FILE_TYPES advertises, given as   *)
(* file_types hints to printJob of src/unnamed/part_004                      *)

\* The characters of documentTypes[k], for every k.
documentTypeChars ==
    << <<"a","p","p","l","i","c","a","t","i","o","n","/","v","n","d",".","o",
        "p","e","n","x","m","l","f","o","r","m","a","t","s","-","o","f","f",
        "i","c","e","d","o","c","u","m","e","n","t",".","w","o","r","d","p",
        "r","o","c","e","s","s","i","n","g","m","l",".","d","o","c","u","m",
        "e","n","t">>,
       <<"a","p","p","l","i","c","a","t","i","o","n","/","m","s","w","o","r",
        "d">>,
       <<"a","p","p","l","i","c","a","t","i","o","n","/","v","n","d",".","o",
        "p","e","n","x","m","l","f","o","r","m","a","t","s","-","o","f","f",
        "i","c","e","d","o","c","u","m","e","n","t",".","s","p","r","e","a",
        "d","s","h","e","e","t","m","l",".","s","h","e","e","t">>,
       <<"a","p","p","l","i","c","a","t","i","o","n","/","v","n","d",".","m",
        "s","-","e","x","c","e","l">>,
       <<"a","p","p","l","i","c","a","t","i","o","n","/","v","n","d",".","o",
        "p","e","n","x","m","l","f","o","r","m","a","t","s","-","o","f","f",
        "i","c","e","d","o","c","u","m","e","n","t",".","p","r","e","s","e",
        "n","t","a","t","i","o","n","m","l",".","p","r","e","s","e","n","t",
        "a","t","i","o","n">>,
       <<"a","p","p","l","i","c","a","t","i","o","n","/","v","n","d",".","m",
        "s","-","p","o","w","e","r","p","o","i","n","t">>,
       <<"a","p","p","l","i","c","a","t","i","o","n","/","v","n","d",".","o",
        "a","s","i","s",".","o","p","e","n","d","o","c","u","m","e","n","t",
        ".","t","e","x","t">>,
       <<"a","p","p","l","i","c","a","t","i","o","n","/","v","n","d",".","o",
        "a","s","i","s",".","o","p","e","n","d","o","c","u","m","e","n","t",
        ".","s","p","r","e","a","d","s","h","e","e","t">>,
       <<"a","p","p","l","i","c","a","t","i","o","n","/","v","n","d",".","o",
        "a","s","i","s",".","o","p","e","n","d","o","c","u","m","e","n","t",
        ".","p","r","e","s","e","n","t","a","t","i","o","n">>,
       <<"d","o","c">>,
       <<"d","o","c","x">>,
       <<"x","l","s">>,
       <<"x","l","s","x">>,
       <<"p","p","t">>,
       <<"p","p","t","x">>,
       <<"o","d","t">>,
       <<"o","d","s">>,
       <<"o","d","p">> >>

AdvertisedUrls == { UrlPlain, UrlPng }

InitAdvertised ==
    /\ impl = "part_004"
    /\ \E k \in DOMAIN documentTypes : \E u \in AdvertisedUrls :
         job = [images_urls |-> [kind |-> "array", val |-> <<u>>],
                file_types |-> <<documentTypeChars[k]>>, quantity |-> 1,
                color_mode |-> ModeColor, color_modes |-> <<>>,
                deviceName |-> "", printerName |-> ""]
    /\ printers = << [name |-> "HP", isDefault |-> TRUE] >>
    /\ libreOffice = TRUE
    /\ pc = "idle"
    /\ i = 0
    /\ q = 0
    /\ targetPrinter = ""
    /\ isConverted = FALSE
    /\ tempDir = "none"
    /\ fsFiles = {}
    /\ madeFiles = {}
    /\ window = "none"
    /\ errorBox = FALSE
    /\ queries = 0
    /\ work = <<>>
    /\ submissions = <<>>
    /\ progress = <<>>
    /\ err = NoError
    /\ url = <<>>
    /\ loaded = NoPage
    /\ tempFiles = <<>>
    /\ pdfImages = <<>>
    /\ pageNum = 0
    /\ response = ""
    /\ platform = "linux"
    /\ installed = IF libreOffice THEN {LIBRE_OFFICE_PATHS.linux} ELSE {}
    /\ replies = <<>>
    /\ checks = 0
    /\ pdfFlag = "none"
    /\ lastDevice = ""
    /\ host = NormalHost
    /\ renderer = <<>>
    /\ kinds = <<>>
    /\ clock = 0
    /\ tmpDirs = {}
    /\ tmpDisk = {}
    /\ running = <<>>
    /\ result = NoResult

SpecAdvertised == InitAdvertised /\ [][Next]_vars

\* C39 (as stated): a file whose file_types hint is one of the advertised
\* office-document types is recognized by isDocument whatever its URL, and
\* is converted before its page is loaded, not printed as an image.
C39_Original ==
    /\ work # <<>> => /\ work[1].op = "download"
                      /\ isDocument(job, urls[1], 0)
    /\ pc \in {"load", "wait", "submit", "printing"} => isConverted
    /\ \A k \in DOMAIN submissions : submissions[k].page.kind = "pdf"

=============================================================================
